---- MODULE Spec2Model ----
(***************************************************************************)
(* ChatBet: the /chat handler (app/main.py), the in-memory SessionManager  *)
(* (app/services/session_manager.py) and the agent/tool graph              *)
(* (app/core/graph.py), as a state machine.                                *)
(*                                                                         *)
(* Python objects that the code shares by reference are kept in two heaps: *)
(* objs holds the AgentState dicts that the session table refers to (their *)
(* "messages" list is mutated in place by chat), ctxs holds the            *)
(* match_context dicts (mutated in place by call_tool).  An object that    *)
(* nothing refers to any more is dropped from its heap.                    *)
(***************************************************************************)
EXTENDS Integers, Sequences, FiniteSets, TLC

\* ---------------------------------------------------------------- bounds

\* Node executions allowed in one chat_agent.invoke: the graph is compiled and
\* invoked without a recursion_limit, so the graph library's own limit applies
\* (25 in the library; lowered here to keep the run finite).
RecursionLimit == 5

\* Tool calls the decision service asks for in one run.
MaxToolCalls == 2

\* Calls of populate_cache in one run of the two cache objects.
MaxPopulateCalls == 4

\* ------------------------------------------------------------ input sets

Sessions == {"s1", "s2"}

\* The chat requests of a run, each served by its own worker thread.
Requests == {"r1", "r2"}

\* What api_client.get_user_balance() can do: raise (ConnectionError of
\* _get_headers, the client having no token), return None (the request
\* failed), a dict without "money", or a dict with "money".
BalanceLookups ==
    {[raises |-> TRUE, none |-> TRUE, has |-> FALSE, money |-> 0],
     [raises |-> FALSE, none |-> TRUE, has |-> FALSE, money |-> 0],
     [raises |-> FALSE, none |-> FALSE, has |-> FALSE, money |-> 0],
     [raises |-> FALSE, none |-> FALSE, has |-> TRUE, money |-> 2]}

\* Stakes the decision service may ask to bet.
Amounts == {-1, 0, 1, 2}

\* Fixture ids of the upstream feed.
Fixtures == {1}

\* What the upstream fetches behind a tool can yield: the snapshot of a
\* fixture, an error result, None from api_client.get_odds, or the
\* ConnectionError of _get_headers when the client has no token.
OddsResults ==
    {[status |-> "ok", fixture |-> f] : f \in Fixtures}
        \cup {[status |-> "error", fixture |-> 0], [status |-> "none", fixture |-> 0],
              [status |-> "unauthenticated", fixture |-> 0]}

\* --------------------------------------------------------------- helpers

EmptyDict == [k \in {} |-> 0]

Truthy(d) == DOMAIN d # {}

Msg(role, kind, val) == [role |-> role, kind |-> kind, val |-> val]

Last(s) == s[Len(s)]

Restrict(f, S) == [x \in (DOMAIN f) \cap S |-> f[x]]

NewId(f) == CHOOSE i \in 1..(Cardinality(DOMAIN f) + 1) :
                /\ i \notin DOMAIN f
                /\ \A j \in 1..(Cardinality(DOMAIN f) + 1) : j \notin DOMAIN f => i <= j

\* ----------------------------------------------------------- the catalogs

VARIABLES
    team_names,       \* TeamNameCache.team_names
    tournaments_map,  \* TournamentNameCache._tournaments_map
    pop,              \* where populate_caches_background is
    calls,            \* calls of populate_cache made so far
    lastCall          \* the last call of populate_cache: the cache, the upstream
                      \* fetches it made, whether it raised, whether it stored
                      \* a catalog

catVars == <<team_names, tournaments_map, pop, calls, lastCall>>

\* team_name_cache.py, line 12.
MAX_RETRIES == 3

\* The orders in which list(all_names) can come out of the set of names.
TeamOrders == {<<"Napoli", "Pisa">>, <<"Pisa", "Napoli">>}

\* What team_cache.json and tournament_cache.json hold when they exist.
LoadedTeams == <<"Napoli", "Pisa">>

LoadedTournaments == [t \in {"Serie A"} |-> 7]

\* What one api_client.get_fixtures_by_sport call of populate_cache can do:
\* raise (ConnectionError of _get_headers), return None, return a payload
\* without a list of fixtures, a list with an item that is no dict, a list of
\* fixtures without team names, or a list of fixtures with names.
FixtureFetches ==
    {[kind |-> k, names |-> <<>>] : k \in {"raise", "none", "not_list", "bad_item", "no_names"}}
        \cup {[kind |-> "ok", names |-> s] : s \in TeamOrders}

\* What the api_client.get_all_tournaments call of populate_cache can do:
\* raise, return None, return something that is no list, a list with an item
\* that is no dict, a list of entries without name or id, or a list of
\* tournaments.
TournamentFetches ==
    {[kind |-> k, map |-> EmptyDict] : k \in {"raise", "none", "not_list", "bad_item", "no_valid"}}
        \cup {[kind |-> "ok", map |-> LoadedTournaments]}

\* TeamNameCache.populate_cache, the loop from attempt i on (the catalog is
\* empty): an attempt that gets a non-empty list of fixtures stores the names
\* found and returns; any other attempt sleeps and goes on; every exception
\* is caught in the loop.
RECURSIVE TeamAttempts(_, _)
TeamAttempts(i, outs) ==
    IF i > MAX_RETRIES
        THEN [names |-> <<>>, fetched |-> MAX_RETRIES, raised |-> FALSE, stored |-> FALSE]
    ELSE IF outs[i].kind \in {"ok", "no_names"}
        THEN [names |-> outs[i].names, fetched |-> i, raised |-> FALSE, stored |-> TRUE]
    ELSE TeamAttempts(i + 1, outs)

\* Mutant of team_populate_cache: the catalog is fetched whether it is
\* populated or not.
team_populate_cache_always(names, outs) == TeamAttempts(1, outs)

\* TeamNameCache.populate_cache.
team_populate_cache(names, outs) ==
    IF names # <<>> THEN [names |-> names, fetched |-> 0, raised |-> FALSE, stored |-> FALSE]
    ELSE TeamAttempts(1, outs)

\* TournamentNameCache.populate_cache: one fetch, outside any try; an
\* exception of the fetch, or of tournament.get on an item that is no dict,
\* leaves the method.
tournament_populate_cache(map, out) ==
    IF Truthy(map) THEN [map |-> map, fetched |-> 0, raised |-> FALSE, stored |-> FALSE]
    ELSE IF out.kind \in {"raise", "bad_item"}
        THEN [map |-> map, fetched |-> 1, raised |-> TRUE, stored |-> FALSE]
    ELSE IF out.kind \in {"none", "not_list"}
        THEN [map |-> map, fetched |-> 1, raised |-> FALSE, stored |-> FALSE]
    ELSE [map |-> out.map, fetched |-> 1, raised |-> FALSE, stored |-> TRUE]

\* The scores process.extractOne can give a catalog entry.
ScoreValues == {60, 80, 90}

\* process.extractOne: the first entry among those with the highest score.
BestIndex(scores) ==
    CHOOSE i \in 1..Len(scores) :
        /\ \A j \in 1..Len(scores) : scores[j] <= scores[i]
        /\ \A j \in 1..(i - 1) : scores[j] < scores[i]

NotFound == "None"

\* Mutant of get_best_match: a score equal to the threshold is refused.
get_best_match_strict(names, scores, threshold) ==
    IF names = <<>> THEN NotFound
    ELSE IF scores[BestIndex(scores)] > threshold THEN names[BestIndex(scores)]
    ELSE NotFound

\* TeamNameCache.get_best_match, scores[i] being the score of names[i].
get_best_match(names, scores, threshold) ==
    IF names = <<>> THEN NotFound
    ELSE IF scores[BestIndex(scores)] >= threshold THEN names[BestIndex(scores)]
    ELSE NotFound

\* get_best_match's threshold when the caller gives none.
DefaultThreshold == 80

\* find_team_fixture, lines 306-318: the team the query is taken for.
TeamMatchThreshold == 80

find_team_resolve(names, scores) ==
    IF names = <<>> THEN "Unavailable"
    ELSE IF scores[BestIndex(scores)] < TeamMatchThreshold THEN NotFound
    ELSE names[BestIndex(scores)]

\* get_teams_by_tournament, lines 417-429: the tournament the query is
\* taken for, among the keys of the tournament map in their order.
TournamentMatchThreshold == 90

tournament_resolve(names, scores) ==
    IF names = <<>> THEN "Unavailable"
    ELSE IF scores[BestIndex(scores)] < TournamentMatchThreshold THEN NotFound
    ELSE names[BestIndex(scores)]

\* The catalogs a name is resolved against, and the thresholds a caller of
\* get_best_match gives (given FALSE: none, the default applies).
Catalogs == {<<>>, <<"Napoli">>, <<"Napoli", "Pisa">>, <<"Napoli", "Pisa", "Roma">>}

GivenThresholds ==
    {[given |-> FALSE, value |-> 0], [given |-> TRUE, value |-> 60],
     [given |-> TRUE, value |-> 90]}

\* The calls that resolve a name.
ResolveCalls ==
    {[fn |-> "get_best_match", names |-> c, scores |-> s, threshold |-> th] :
        c \in Catalogs, s \in UNION {[1..n -> ScoreValues] : n \in 0..3}, th \in GivenThresholds}
    \cup {[fn |-> f, names |-> c, scores |-> s, threshold |-> [given |-> FALSE, value |-> 0]] :
        f \in {"find_team_fixture", "get_teams_by_tournament"},
        c \in Catalogs, s \in UNION {[1..n -> ScoreValues] : n \in 0..3}}

\* What a resolving call returns.
resolve(in) ==
    IF in.fn = "get_best_match"
        THEN get_best_match(in.names, in.scores,
                            IF in.threshold.given THEN in.threshold.value ELSE DefaultThreshold)
    ELSE IF in.fn = "find_team_fixture" THEN find_team_resolve(in.names, in.scores)
    ELSE tournament_resolve(in.names, in.scores)

\* ------------------------------------------------------------- the tools

\* Mutant of tools: place_real_bet is in the tool list.
tools_with_real_bet ==
    {"get_fixtures_by_date", "find_team_fixture", "get_teams_by_tournament",
     "get_odds_for_match", "get_daily_odds_analysis", "get_match_recommendation",
     "get_betting_recommendation", "calculate_winnings_for_match",
     "get_odds_for_outcome", "place_simulated_bet", "place_real_bet"}

\* The tool list of the graph.
tools ==
    {"get_fixtures_by_date", "find_team_fixture", "get_teams_by_tournament",
     "get_odds_for_match", "get_daily_odds_analysis", "get_match_recommendation",
     "get_betting_recommendation", "calculate_winnings_for_match",
     "get_odds_for_outcome", "place_simulated_bet"}

\* Tools that look a match's odds up through _get_match_odds_data.
OddsTools ==
    {"get_odds_for_match", "get_odds_for_outcome", "calculate_winnings_for_match",
     "place_simulated_bet"}

\* The names the decision service asks for: the two tools whose output
\* call_tool can merge, one tool that answers with a string after an odds
\* lookup, one that answers with a string without one, and a name that is
\* not in the tool list.
RequestedTools ==
    {"get_odds_for_match", "place_simulated_bet", "calculate_winnings_for_match",
     "get_fixtures_by_date", "not_a_tool"}

\* A tool call as the decision service requests it.
ToolCalls ==
    {[name |-> n, amount |-> 0, args |-> "ok"] : n \in RequestedTools \ {"place_simulated_bet"}}
        \cup {[name |-> "place_simulated_bet", amount |-> a, args |-> "ok"] : a \in Amounts}

NoCall == [name |-> "none", amount |-> 0, args |-> "ok"]

\* Keys of the odds dict that _get_match_odds_data builds.
OddsKeys ==
    {"match", "match_result", "both_teams_to_score", "double_chance",
     "over_under", "handicap", "half_time_result"}

\* A tool's output: a plain string, or a string that json.loads parses to a dict.
TextOutput(kind, val) ==
    [raises |-> FALSE, json |-> FALSE, parsed |-> EmptyDict, raw |-> [kind |-> kind, val |-> val]]

JsonOutput(d, kind, val) ==
    [raises |-> FALSE, json |-> TRUE, parsed |-> d, raw |-> [kind |-> kind, val |-> val]]

Raised == [raises |-> TRUE, json |-> FALSE, parsed |-> EmptyDict, raw |-> [kind |-> "exception", val |-> 0]]

\* The ValidationError of a tool's argument schema.
SchemaRaised ==
    [raises |-> TRUE, json |-> FALSE, parsed |-> EmptyDict,
     raw |-> [kind |-> "validation_error", val |-> 0]]

\* The calls the decision service asks for when its arguments may not fit
\* the tool's schema: an argument missing, or a value of the wrong type.
DispatchCalls ==
    {[name |-> n, amount |-> 0, args |-> a] :
        n \in {"get_odds_for_match", "get_fixtures_by_date", "not_a_tool"},
        a \in {"ok", "missing", "wrong_type"}}

\* _get_match_odds_data: the odds dict of the fixture found, an error dict,
\* an AttributeError when get_odds returned None (odds_data.get on None), or
\* the ConnectionError of get_fixtures_by_sport when the client has no token.
get_match_odds_data(r) ==
    IF team_names = <<>> THEN [raises |-> FALSE, d |-> [error |-> "teams"]]
    ELSE IF r.status \in {"none", "unauthenticated"} THEN [raises |-> TRUE, d |-> EmptyDict]
    ELSE IF r.status = "error" THEN [raises |-> FALSE, d |-> [error |-> "odds"]]
    ELSE [raises |-> FALSE, d |-> [k \in OddsKeys |-> r.fixture]]

get_odds_for_match(r) ==
    LET o == get_match_odds_data(r) IN
    IF o.raises THEN Raised
    ELSE JsonOutput(o.d, IF "error" \in DOMAIN o.d THEN "odds_error_json" ELSE "odds_json",
                    r.fixture)

\* find_team_fixture, lines 307-309, and what follows them: the fetch of the
\* fixtures raises when the client has no token.
find_team_fixture(r) ==
    IF team_names = <<>> THEN TextOutput("team_list_unavailable", 0)
    ELSE IF r.status = "unauthenticated" THEN Raised
    ELSE TextOutput("text", 0)

\* get_teams_by_tournament, lines 418-420, and what follows them: the fetch
\* of the fixtures raises when the client has no token.
get_teams_by_tournament(r) ==
    IF ~Truthy(tournaments_map) THEN TextOutput("tournament_list_empty", 0)
    ELSE IF r.status = "unauthenticated" THEN Raised
    ELSE TextOutput("text", 0)

\* The calls the decision service asks for when it is asked about teams,
\* tournaments and odds.
CatalogToolCalls ==
    {[name |-> n, amount |-> 0, args |-> "ok"] :
        n \in {"find_team_fixture", "get_teams_by_tournament", "get_odds_for_match"}}

\* The tools that answer with a formatted string: those that look the odds
\* of a match up raise when that lookup raises; the others
\* (get_fixtures_by_date, and _analyze_daily_odds behind
\* get_daily_odds_analysis, get_match_recommendation and
\* get_betting_recommendation) fetch the fixtures, which raises when the
\* client has no token.
text_tool(name, r) ==
    IF name \in OddsTools
        THEN IF get_match_odds_data(r).raises THEN Raised ELSE TextOutput("text", 0)
    ELSE IF r.status = "unauthenticated" THEN Raised
    ELSE TextOutput("text", 0)

\* Mutant of NewBet: the ledger entry is written with a stake of 1 whatever
\* the stake debited.
NewBetUnitStake(r, amount) == [match |-> r.fixture, outcome_bet_on |-> "home_win", amount_bet |-> 1]

\* The bet simulator: the ledger entry has the keys call_model reads.
NewBet(r, amount) == [match |-> r.fixture, outcome_bet_on |-> "home_win", amount_bet |-> amount]

\* Mutant of place_simulated_bet: only a negative amount is refused.
place_simulated_bet_zero_ok(current_balance, amount, r) ==
    IF amount < 0 THEN TextOutput("InvalidAmount", 0)
    ELSE IF get_match_odds_data(r).raises THEN Raised
    ELSE IF "error" \in DOMAIN get_match_odds_data(r).d THEN TextOutput("odds_error", 0)
    ELSE IF amount > current_balance THEN TextOutput("InsufficientBalance", current_balance)
    ELSE JsonOutput([context |-> [balance_change |-> 0 - amount, new_bet |-> NewBet(r, amount)],
                     display |-> [kind |-> "bet_display", val |-> amount]],
                    "bet_json", amount)

\* BetSimulator.placeBet as a tool: InvalidAmount, the odds lookup's error,
\* InsufficientBalance with the current balance, or a patch with the
\* negative balance delta and the ledger entry, and a display text.
place_simulated_bet(current_balance, amount, r) ==
    IF amount <= 0 THEN TextOutput("InvalidAmount", 0)
    ELSE IF get_match_odds_data(r).raises THEN Raised
    ELSE IF "error" \in DOMAIN get_match_odds_data(r).d THEN TextOutput("odds_error", 0)
    ELSE IF amount > current_balance THEN TextOutput("InsufficientBalance", current_balance)
    ELSE JsonOutput([context |-> [balance_change |-> 0 - amount, new_bet |-> NewBet(r, amount)],
                     display |-> [kind |-> "bet_display", val |-> amount]],
                    "bet_json", amount)

\* ------------------------------------- _get_match_odds_data in detail

\* Team names as users and the feed write them, and the score
\* process.extractOne gives each against the entries of LoadedTeams.
TeamQueries == {"Napoli", "napoli fc", "Pisa", "Roma"}

Similarity ==
    [q \in TeamQueries |->
        CASE q = "Napoli" -> <<90, 60>>
          [] q = "napoli fc" -> <<80, 60>>
          [] q = "Pisa" -> <<60, 90>>
          [] q = "Roma" -> <<60, 60>>]

Scores(q, names) == IF names = <<>> THEN <<>> ELSE Similarity[q]

\* The fixtures of the feed: the English names of the two teams ("" when
\* the fixture has none) and whether it has its id and tournament_id.
FeedFixtures ==
    {[home |-> h, away |-> a, ids |-> i] :
        h \in {"Napoli", "Pisa", ""}, a \in {"Napoli", "Pisa", ""}, i \in BOOLEAN}

\* What api_client.get_fixtures_by_sport does: it returns None or the
\* fixtures, or, the client having no token, _get_headers raises
\* ConnectionError, which the except clause for RequestException does not
\* catch.
Feeds ==
    {[kind |-> "none", fixtures |-> <<>>], [kind |-> "raise", fixtures |-> <<>>]}
        \cup {[kind |-> "list", fixtures |-> fs] :
                 fs \in UNION {[1..n -> FeedFixtures] : n \in 0..2}}

\* What api_client.get_odds does: it returns None, or a dict with a status
\* and the odds of the result market, or raises the ConnectionError of
\* _get_headers.
OddsFetches ==
    {[kind |-> "none", status |-> "", home |-> 0, away |-> 0],
     [kind |-> "raise", status |-> "", home |-> 0, away |-> 0],
     [kind |-> "dict", status |-> "Inactive", home |-> 2, away |-> 3],
     [kind |-> "dict", status |-> "Active", home |-> 2, away |-> 3]}

\* Mutant of FixtureMatches: the fixture is looked for with team_one at home
\* only.
FixtureMatchesHomeFirst(names, f, one, two) ==
    /\ f.home # "" /\ f.away # ""
    /\ get_best_match(names, Scores(f.home, names), DefaultThreshold) = one
    /\ get_best_match(names, Scores(f.away, names), DefaultThreshold) = two

\* _get_match_odds_data, lines 37-43: the fixture is the one of the two
\* canonical names, in either order.
FixtureMatches(names, f, one, two) ==
    /\ f.home # "" /\ f.away # ""
    /\ LET home_canonical == get_best_match(names, Scores(f.home, names), DefaultThreshold)
           away_canonical == get_best_match(names, Scores(f.away, names), DefaultThreshold)
       IN \/ home_canonical = one /\ away_canonical = two
          \/ home_canonical = two /\ away_canonical = one

\* _get_match_odds_data, lines 35-45: the index of the first fixture that
\* matches, 0 when there is none.
FoundFixture(names, fixtures, one, two) ==
    IF \E i \in 1..Len(fixtures) : FixtureMatches(names, fixtures[i], one, two)
    THEN CHOOSE i \in 1..Len(fixtures) :
            /\ FixtureMatches(names, fixtures[i], one, two)
            /\ \A j \in 1..(i - 1) : ~FixtureMatches(names, fixtures[j], one, two)
    ELSE 0

\* What _get_match_odds_data gives back: an error dict with its message,
\* the odds dict, or an exception.
OddsError(message, one, two) ==
    [kind |-> "error", error |-> message, about |-> <<one, two>>,
     match |-> <<"", "">>, home_win |-> 0, away_win |-> 0]

OddsInfo(f, odds) ==
    [kind |-> "odds", error |-> "", about |-> <<"", "">>,
     match |-> <<f.home, f.away>>, home_win |-> odds.home, away_win |-> odds.away]

OddsRaised(exception) ==
    [kind |-> "raised", error |-> exception, about |-> <<"", "">>,
     match |-> <<"", "">>, home_win |-> 0, away_win |-> 0]

\* _get_match_odds_data(team_one, team_two) against a catalog, with what the
\* two upstream fetches do.  The fixtures are fetched after the two checks of
\* the names (line 29) and the odds after the fixture is found with its ids
\* (line 59); a fetch that raises ends the call with its exception, and None
\* for the odds ends it with the AttributeError of odds_data.get (line 61).
match_odds_data(names, team_one, team_two, feed, odds) ==
    LET canonical_team_one == get_best_match(names, Scores(team_one, names), DefaultThreshold)
        canonical_team_two == get_best_match(names, Scores(team_two, names), DefaultThreshold)
        found == FoundFixture(names, feed.fixtures, canonical_team_one, canonical_team_two)
    IN IF canonical_team_one = NotFound \/ canonical_team_two = NotFound
           THEN OddsError("Could not find one or both teams", team_one, team_two)
       ELSE IF canonical_team_one = canonical_team_two
           THEN OddsError("Cannot get odds for a team against itself", "", "")
       ELSE IF feed.kind = "raise"
           THEN OddsRaised("ConnectionError")
       ELSE IF feed.kind = "none"
           THEN OddsError("Could not retrieve match data from the API", "", "")
       ELSE IF feed.fixtures = <<>>
           THEN OddsError("No match data found", "", "")
       ELSE IF found = 0
           THEN OddsError("No upcoming match found", canonical_team_one, canonical_team_two)
       ELSE IF ~feed.fixtures[found].ids
           THEN OddsError("Found match but missing IDs for odds", "", "")
       ELSE IF odds.kind = "raise"
           THEN OddsRaised("ConnectionError")
       ELSE IF odds.kind = "none"
           THEN OddsRaised("AttributeError")
       ELSE IF odds.status # "Active"
           THEN OddsError("Odds are currently inactive or unavailable", "", "")
       ELSE OddsInfo(feed.fixtures[found], odds)

\* The calls of _get_match_odds_data.
OddsCalls ==
    {[fn |-> "get_match_odds_data", names |-> c, team_one |-> a, team_two |-> b,
      feed |-> fd, odds |-> o] :
        c \in {<<>>, LoadedTeams}, a \in TeamQueries, b \in TeamQueries,
        fd \in Feeds, o \in OddsFetches}

\* ----------------------------------------------------- the date queries

\* Today as datetime.now(timezone.utc).date() gives it: the length of the
\* current month, the day of the month, and the weekday (Monday is 0).  A
\* date is written as its day counted from the first of the current month,
\* so a day beyond the month's length lies in the next month.
Todays == {td \in [len : 28..31, day : 1..31, weekday : 0..6] : td.day <= td.len}

WeekdayOf(d, today) == (today.weekday + (d - today.day) + 35) % 7

\* The date queries, and the words _parse_date_range looks for in them.
DateQueries ==
    {"this weekend", "this month", "end of the month", "weekend at the end of the month",
     "today", "tomorrow", "whenever"}

Contains(q, word) ==
    CASE word = "weekend" -> q \in {"this weekend", "weekend at the end of the month"}
      [] word = "end of" -> q \in {"end of the month", "weekend at the end of the month"}
      [] word = "month" -> q \in {"this month", "end of the month", "weekend at the end of the month"}

\* No date: the None of dateparser.parse and of _parse_date_range.
NoDate == 0

\* What dateparser.parse can make of a query: a single date or None.  A
\* phrase that names a period is taken as a date relative to now, today, or
\* not understood.
DateparserOutcomes(q, today) ==
    CASE q = "today" -> {today.day}
      [] q = "tomorrow" -> {today.day + 1}
      [] q = "whenever" -> {NoDate}
      [] OTHER -> {NoDate, today.day}

\* _parse_date_range, line 129.
start_of_weekend(today) == today.day + ((5 - today.weekday + 7) % 7)

NoRange == [start |-> NoDate, end |-> NoDate]

\* _parse_date_range, parsed being what dateparser.parse makes of the query.
parse_date_range(query, today, parsed) ==
    IF Contains(query, "weekend")
        THEN [start |-> start_of_weekend(today), end |-> start_of_weekend(today) + 1]
    ELSE IF Contains(query, "end of") /\ Contains(query, "month")
        THEN [start |-> today.len - 4, end |-> today.len]
    ELSE IF Contains(query, "month")
        THEN [start |-> 1, end |-> today.len]
    ELSE IF parsed # NoDate THEN [start |-> parsed, end |-> parsed]
    ELSE NoRange

\* The days the fixtures of the feed are dated.
FixtureDays == {1, 10, 28}

\* What get_fixtures_by_date returns: a message, or the list of the
\* fixtures found (here their days).
DateText(message) == [kind |-> "text", text |-> message, days |-> <<>>]

RECURSIVE FixturesOn(_, _)
FixturesOn(days, target) ==
    IF days = <<>> THEN <<>>
    ELSE IF Head(days) = target THEN <<Head(days)>> \o FixturesOn(Tail(days), target)
    ELSE FixturesOn(Tail(days), target)

\* get_fixtures_by_date: the query goes to dateparser.parse, the fixtures
\* are fetched (line 245, where a client without token raises), and the
\* fixtures dated the one day the parser gave are listed.
get_fixtures_by_date(parsed, feed) ==
    IF parsed = NoDate THEN DateText("couldn't understand the date")
    ELSE IF feed.kind = "raise"
        THEN [kind |-> "raised", text |-> "ConnectionError", days |-> <<>>]
    ELSE IF feed.kind = "none" THEN DateText("Could not retrieve fixtures from the API")
    ELSE IF feed.days = <<>> THEN DateText("No fixtures data was found")
    ELSE IF FixturesOn(feed.days, parsed) = <<>> THEN DateText("No matches found")
    ELSE [kind |-> "fixtures", text |-> "Here are the matches", days |-> FixturesOn(feed.days, parsed)]

\* The fetch of the fixtures as get_fixtures_by_date sees it: None, fixtures
\* with a date, or the ConnectionError of a client without token.
DatedFeeds ==
    {[kind |-> "none", days |-> <<>>], [kind |-> "raise", days |-> <<>>]}
        \cup {[kind |-> "list", days |-> ds] : ds \in UNION {[1..n -> FixtureDays] : n \in 0..2}}

\* The calls of _parse_date_range and of get_fixtures_by_date.
DateCalls ==
    UNION {{[fn |-> "parse_date_range", query |-> q, today |-> td, parsed |-> pd,
             feed |-> [kind |-> "none", days |-> <<>>]] :
               pd \in DateparserOutcomes(q, td)} : q \in DateQueries, td \in Todays}
    \cup
    UNION {{[fn |-> "get_fixtures_by_date", query |-> q, today |-> td, parsed |-> pd,
             feed |-> fd] :
               pd \in DateparserOutcomes(q, td), fd \in DatedFeeds} :
             q \in DateQueries,
             td \in {x \in Todays : x.weekday = 0 /\ x.day \in {1, x.len}}}

\* ------------------------------------------------- _analyze_daily_odds

\* float('inf'): above every odds value and every difference of odds.
Infinity == 999

\* What api_client.get_odds does for a fixture of the analysis: it returns
\* None, a dict whose status is not Active, an Active dict without result
\* market, one whose result market lacks the odds of a side, or one with both
\* sides priced, or it raises the ConnectionError of _get_headers.  The odds
\* are the numbers of the payload, taken as they come: the code reads them
\* without a check, 0 included.
AnalysisOdds ==
    {[kind |-> "none", home |-> 0, away |-> 0],
     [kind |-> "raise", home |-> 0, away |-> 0],
     [kind |-> "inactive", home |-> 0, away |-> 3],
     [kind |-> "no_market", home |-> 0, away |-> 0],
     [kind |-> "one_side", home |-> 1, away |-> 0]}
        \cup {[kind |-> "priced", home |-> h, away |-> a] : h \in 0..2, a \in 0..2}

\* The fixtures of the feed as the analysis reads them: the day, whether the
\* fixture has its ids, and what get_odds returns for it.
AnalysisFixtures ==
    {[day |-> d, ids |-> i, odds |-> o] : d \in {10, 20}, i \in BOOLEAN, o \in AnalysisOdds}

\* What the fetch of the fixtures does for the analysis: None, the fixtures,
\* or the ConnectionError of a client without token.
AnalysisFeeds ==
    {[kind |-> "none", fixtures |-> <<>>], [kind |-> "raise", fixtures |-> <<>>]}
        \cup {[kind |-> "list", fixtures |-> fs] :
                 fs \in UNION {[1..n -> AnalysisFixtures] : n \in 0..2}}

\* Mutant of Analyzable: the status of the odds is not looked at.
AnalyzableAnyStatus(f, range) ==
    /\ range.start <= f.day /\ f.day <= range.end
    /\ f.ids
    /\ f.odds.kind \in {"priced", "inactive"}

\* _analyze_daily_odds, lines 178 and 190-197: the fixture is in the range
\* and is not skipped by the loop over the odds.
Analyzable(f, range) ==
    /\ range.start <= f.day /\ f.day <= range.end
    /\ f.ids
    /\ f.odds.kind = "priced"

\* _analyze_daily_odds, lines 184-186.
InitialAnalysis ==
    [safest_bet |-> [odds |-> Infinity, fixture |-> 0, team |-> "none"],
     riskiest_bet |-> [odds |-> 0, fixture |-> 0, team |-> "none"],
     most_competitive_match |-> [diff |-> Infinity, fixture |-> 0]]

Abs(x) == IF x < 0 THEN 0 - x ELSE x

\* _analyze_daily_odds, lines 198-206: fixture i with its odds is taken into
\* the three results.
AnalyzeFixture(acc, i, home_odds, away_odds) ==
    LET s1 == IF home_odds < acc.safest_bet.odds
              THEN [odds |-> home_odds, fixture |-> i, team |-> "home"] ELSE acc.safest_bet
        s2 == IF away_odds < s1.odds
              THEN [odds |-> away_odds, fixture |-> i, team |-> "away"] ELSE s1
        r1 == IF home_odds > acc.riskiest_bet.odds
              THEN [odds |-> home_odds, fixture |-> i, team |-> "home"] ELSE acc.riskiest_bet
        r2 == IF away_odds > r1.odds
              THEN [odds |-> away_odds, fixture |-> i, team |-> "away"] ELSE r1
        diff == Abs(home_odds - away_odds)
        mc == IF diff < acc.most_competitive_match.diff
              THEN [diff |-> diff, fixture |-> i] ELSE acc.most_competitive_match
    IN [safest_bet |-> s2, riskiest_bet |-> r2, most_competitive_match |-> mc]

\* _analyze_daily_odds, lines 188-206: the loop, from fixture i on.
RECURSIVE AnalyzeFrom(_, _, _, _)
AnalyzeFrom(acc, i, fixtures, range) ==
    IF i > Len(fixtures) THEN acc
    ELSE IF Analyzable(fixtures[i], range)
        THEN AnalyzeFrom(AnalyzeFixture(acc, i, fixtures[i].odds.home, fixtures[i].odds.away),
                         i + 1, fixtures, range)
    ELSE AnalyzeFrom(acc, i + 1, fixtures, range)

AnalysisError(message) ==
    [kind |-> "error", error |-> message, start_date |-> NoDate, end_date |-> NoDate,
     safest_bet |-> InitialAnalysis.safest_bet,
     riskiest_bet |-> InitialAnalysis.riskiest_bet,
     most_competitive_match |-> InitialAnalysis.most_competitive_match]

\* _analyze_daily_odds, line 209.
NoneAnalyzed(acc) == acc.safest_bet.fixture = 0

\* _analyze_daily_odds: the range is parsed, the fixtures are fetched (line
\* 163) and filtered, and the odds of each fixture left are fetched (line
\* 192); a fetch that raises ends the call with its exception.
analyze_daily_odds(date_query, today, parsed, feed) ==
    LET range == parse_date_range(date_query, today, parsed)
        acc == AnalyzeFrom(InitialAnalysis, 1, feed.fixtures, range)
        \* the call ended by the exception of a fetch
        raised == [AnalysisError("ConnectionError") EXCEPT !.kind = "raised"]
        \* lines 190-192: the odds of a fixture in the range that has its ids
        \* are asked for, and the fetch raises
        odds_fetch_raises ==
            \E i \in 1..Len(feed.fixtures) :
                /\ range.start <= feed.fixtures[i].day /\ feed.fixtures[i].day <= range.end
                /\ feed.fixtures[i].ids
                /\ feed.fixtures[i].odds.kind = "raise"
    IN IF range.start = NoDate \/ range.end = NoDate
           THEN AnalysisError("Couldn't understand the date or range")
       ELSE IF feed.kind = "raise"
           THEN raised
       ELSE IF feed.kind = "none"
           THEN AnalysisError("Could not retrieve fixtures from the API")
       ELSE IF feed.fixtures = <<>>
           THEN AnalysisError("No fixtures data was found to analyze")
       ELSE IF \A i \in 1..Len(feed.fixtures) :
                  ~(range.start <= feed.fixtures[i].day /\ feed.fixtures[i].day <= range.end)
           THEN AnalysisError("No matches found for the period")
       ELSE IF odds_fetch_raises
           THEN raised
       ELSE IF NoneAnalyzed(acc)
           THEN AnalysisError("Found matches, but couldn't analyze their odds")
       ELSE [kind |-> "analysis", error |-> "", start_date |-> range.start,
             end_date |-> range.end, safest_bet |-> acc.safest_bet,
             riskiest_bet |-> acc.riskiest_bet,
             most_competitive_match |-> acc.most_competitive_match]

\* The day the analysis is asked for.
AnalysisToday == [len |-> 30, day |-> 10, weekday |-> 2]

\* The calls of _analyze_daily_odds.
AnalysisCalls ==
    UNION {{[fn |-> "analyze_daily_odds", query |-> q, today |-> AnalysisToday,
             parsed |-> pd, feed |-> fd] :
               pd \in DateparserOutcomes(q, AnalysisToday), fd \in AnalysisFeeds} :
             q \in {"today", "this month", "whenever"}}

\* The stakes of a ledger, added up.
RECURSIVE SumStakes(_)
SumStakes(bets) == IF bets = <<>> THEN 0 ELSE Head(bets).amount_bet + SumStakes(Tail(bets))

\* Mutant of InjectedBalance: the balance the session started with is handed
\* over instead of the current one.
InjectedBalanceStale(state) == state.simulated_balance + SumStakes(state.bets)

\* call_tool, lines 106-107: the balance handed to place_simulated_bet.
InjectedBalance(state) == state.simulated_balance

\* place_real_bet: the real balance is looked up and the stake is tested
\* against it; then get_odds is called with fixture_id alone, which raises
\* TypeError (tournament_id and sport_id are required), so that the call of
\* api_client.place_bet that follows is never reached.  placed counts the
\* calls of api_client.place_bet.
place_real_bet(b, amount) ==
    IF b.raises THEN [out |-> Raised, placed |-> 0]
    ELSE IF b.none \/ ~b.has
        THEN [out |-> TextOutput("real_bet_balance_unverified", 0), placed |-> 0]
    ELSE IF amount <= 0
        THEN [out |-> TextOutput("real_bet_amount_not_positive", 0), placed |-> 0]
    ELSE IF amount > b.money
        THEN [out |-> TextOutput("real_bet_insufficient_balance", b.money), placed |-> 0]
    ELSE [out |-> Raised, placed |-> 0]

\* The calls the decision service asks for when it may name any function of
\* chat_tools: those of ToolCalls and the unlisted ones.
RegistryCalls ==
    ToolCalls
        \cup {[name |-> "place_real_bet", amount |-> a, args |-> "ok"] : a \in Amounts}
        \cup {[name |-> "get_user_balance", amount |-> 0, args |-> "ok"]}

\* The real balance a tool step looks up: place_real_bet looks it up, the
\* other tools do not.
RealBalances(call) ==
    IF call.name = "place_real_bet" THEN BalanceLookups
    ELSE {[raises |-> FALSE, none |-> TRUE, has |-> FALSE, money |-> 0]}

\* tool_executor.invoke, as to real money: place_real_bet runs when its name
\* is in the tool list and the arguments fit.
RealBetsAfter(bets, call, b) ==
    IF call.name \in tools /\ call.args = "ok" /\ call.name = "place_real_bet"
    THEN [ran |-> bets.ran + 1, placed |-> bets.placed + place_real_bet(b, call.amount).placed]
    ELSE bets

\* tool_executor.invoke: a name outside the tool list is answered with a
\* string; the tool's invoke validates the arguments against the tool's
\* schema and raises before the tool's function is called.
tool_executor(state, call, r, b) ==
    IF call.name \notin tools THEN TextOutput("invalid_tool", 0)
    ELSE IF call.args # "ok" THEN SchemaRaised
    ELSE IF call.name = "place_real_bet" THEN place_real_bet(b, call.amount).out
    ELSE IF call.name = "place_simulated_bet"
        THEN place_simulated_bet(InjectedBalance(state), call.amount, r)
    ELSE IF call.name = "get_odds_for_match" THEN get_odds_for_match(r)
    ELSE IF call.name = "find_team_fixture" THEN find_team_fixture(r)
    ELSE IF call.name = "get_teams_by_tournament" THEN get_teams_by_tournament(r)
    ELSE text_tool(call.name, r)

\* ------------------------------------------------ call_tool's pure parts

\* Mutant of NewContext: the parsed output itself is taken as the patch, so
\* the delta and the entry under "context" are never applied.
NewContextWholeOutput(out) ==
    IF ~out.json THEN EmptyDict
    ELSE IF "match" \in DOMAIN out.parsed /\ "error" \notin DOMAIN out.parsed
        THEN out.parsed
    ELSE IF "context" \in DOMAIN out.parsed /\ Truthy(out.parsed.context)
        THEN out.parsed
    ELSE EmptyDict

\* call_tool, lines 117-124: the context patch a tool output carries, if any.
NewContext(out) ==
    IF ~out.json THEN EmptyDict
    ELSE IF "context" \in DOMAIN out.parsed /\ Truthy(out.parsed.context)
        THEN out.parsed.context
    ELSE IF "match" \in DOMAIN out.parsed /\ "error" \notin DOMAIN out.parsed
        THEN out.parsed
    ELSE EmptyDict

\* call_tool, lines 112 and 119-122: the content of the tool message.
ToolContent(out) ==
    IF /\ out.json
       /\ "context" \in DOMAIN out.parsed
       /\ Truthy(out.parsed.context)
       /\ "display" \in DOMAIN out.parsed
    THEN out.parsed.display
    ELSE out.raw

\* Mutant of Update: the patch replaces the context instead of being merged.
UpdateReplace(cur, new) == new

\* dict.update: the keys of the patch overwrite, the others stay.
Update(cur, new) ==
    [k \in (DOMAIN cur) \cup (DOMAIN new) |-> IF k \in DOMAIN new THEN new[k] ELSE cur[k]]

\* Mutant of SimulationUpdates: the merged context is looked at, so a delta
\* left there by an earlier bet is applied again.
SimulationUpdatesMerged(new, merged) == merged

\* call_tool, lines 132 and 135: the dict in which the balance delta and the
\* new ledger entry are looked up is the patch, not the merged context.
SimulationUpdates(new, merged) == new

\* Mutant of BalanceAfter: the delta is applied twice.
BalanceAfterTwice(balance, new) ==
    IF "balance_change" \in DOMAIN new
    THEN balance + new.balance_change + new.balance_change ELSE balance

\* call_tool, lines 132-134.
BalanceAfter(balance, new) ==
    IF "balance_change" \in DOMAIN new THEN balance + new.balance_change ELSE balance

\* Mutant of BetsAfter: the ledger is replaced by the new entry.
BetsAfterReplace(bets, new) ==
    IF "new_bet" \in DOMAIN new THEN <<new.new_bet>> ELSE bets

\* call_tool, lines 135-137.
BetsAfter(bets, new) ==
    IF "new_bet" \in DOMAIN new THEN Append(bets, new.new_bet) ELSE bets

\* The odds dicts of _get_match_odds_data, lines 74-115: the label of the
\* match and, under each market's key, a dict with every outcome key, priced
\* or None (0 stands for None).
Snapshots ==
    {[k \in OddsKeys |-> IF k = "match" THEN f ELSE [home_win |-> h, draw |-> d]] :
        f \in {1, 2}, h \in {0, 2}, d \in {0, 3}}

\* Dicts as any tool may hand them over under "context": some of the keys,
\* and under a market's key a dict with some of the outcome keys.
ContextDicts ==
    UNION {{[k \in S |-> IF k = "match" THEN m ELSE v] :
               m \in {1, 2}, v \in UNION {[O -> {1, 2}] : O \in SUBSET {"home_win", "draw"}}} :
             S \in SUBSET {"match", "match_result"}}

\* state.get("match_context") at a tool step: None, or a dict merged in
\* earlier steps, with or without the keys a bet left.
MergeContexts ==
    {[isNone |-> TRUE, d |-> EmptyDict]}
        \cup {[isNone |-> FALSE, d |-> d] : d \in ContextDicts \cup Snapshots}
        \cup {[isNone |-> FALSE,
                d |-> [k \in OddsKeys \cup {"balance_change"} |->
                         IF k = "balance_change" THEN -1 ELSE s[k]]] : s \in Snapshots}

\* The tool outputs merged: the odds dict of get_odds_for_match, or a dict
\* with "context" and "display".
MergeOutputs ==
    {JsonOutput(s, "odds_json", s.match) : s \in Snapshots}
        \cup {JsonOutput([context |-> p, display |-> [kind |-> "display", val |-> 0]],
                         "context_json", 0) : p \in ContextDicts}

\* Mutant of merge_context: under a key that both dicts have, the dict of
\* the patch is merged into the old one, outcome by outcome.
merge_context_deep(context, out) ==
    LET new == NewContext(out)
        cur == IF context.isNone \/ ~Truthy(context.d) THEN EmptyDict ELSE context.d
    IN IF Truthy(new)
       THEN [kind |-> "merged", updated |-> TRUE,
             d |-> [k \in (DOMAIN cur) \cup (DOMAIN new) |->
                      IF k \notin DOMAIN new THEN cur[k]
                      ELSE IF k \in DOMAIN cur /\ k \notin {"match", "balance_change"}
                          THEN Update(cur[k], new[k])
                      ELSE new[k]]]
       ELSE [kind |-> "merged", updated |-> FALSE, d |-> context.d]

\* call_tool, lines 115-129: the patch of the tool output is merged into
\* state.get("match_context") or {}; without a patch nothing is updated.
merge_context(context, out) ==
    LET new == NewContext(out)
        cur == IF context.isNone \/ ~Truthy(context.d) THEN EmptyDict ELSE context.d
    IN IF Truthy(new)
       THEN [kind |-> "merged", updated |-> TRUE, d |-> Update(cur, new)]
       ELSE [kind |-> "merged", updated |-> FALSE, d |-> context.d]

\* Mutant of should_continue: the graph goes on to the tool node whatever
\* the last message is.
should_continue_always(messages) == "continue_to_tool"

\* should_continue.
should_continue(messages) ==
    IF Last(messages).kind = "tool_call" THEN "continue_to_tool" ELSE "END"

\* ------------------------------------------------------------------ state

VARIABLES
    cacheReady,   \* CACHE_READY
    sessions,     \* SessionManager._sessions: session id -> id of an AgentState in objs
    objs,         \* heap of AgentState dicts: messages, match_context (id in ctxs, 0 for None),
                  \* simulated_balance, bets
    ctxs,         \* heap of match_context dicts
    pc,           \* where each request is in chat()
    sid,          \* request.session_id
    cur,          \* current_state: id in objs of the dict get_session returned (0: none)
    ch,           \* the graph's state during chat_agent.invoke
    steps,        \* node executions of the running invoke
    pending,      \* tool_calls[0] of the last assistant message
    toolOut,      \* tool_output of the last tool step
    response,     \* what the request answered
    pre,          \* the stored state of the session as get_session returned it
    toolCalls     \* tool calls requested so far

\* The variables of the chat handler.
chatVars ==
    <<sessions, objs, ctxs, pc, sid, cur, ch, steps, pending, toolOut, response, pre,
      toolCalls>>

\* A tool function called by itself: its arguments with what the upstream
\* answers during the call, and what it returned.
VARIABLES
    fnIn,         \* the function called, its arguments and the upstream's answers
    fnOut         \* what the call returned or raised

fnVars == <<fnIn, fnOut>>

\* The calls of api_client.get_user_balance made by get_session, with what
\* each gave, by the session id they were made for.
VARIABLES
    lookups

\* What the tools of the turns did with real money: how often place_real_bet
\* ran, and how often api_client.place_bet was called.
VARIABLES
    realBets


vars ==
    <<cacheReady, sessions, objs, ctxs, pc, sid, cur, ch, steps, pending, toolOut,
      response, pre, toolCalls, team_names, tournaments_map, pop, calls, lastCall,
      fnIn, fnOut, lookups, realBets>>

NoChannel == [messages |-> <<>>, match_context |-> 0, simulated_balance |-> 0, bets |-> <<>>]

\* The fields of the response model of /chat.
ChatResponseFields == {"response", "session_id"}

\* response_model=ChatResponse: of the dict chat returns, the fields of the
\* response model are serialized and the other keys are dropped.
ChatResponse(d) == [k \in (DOMAIN d) \cap ChatResponseFields |-> d[k]]

\* A request's answer: the HTTP status and the serialized body.
NoResponse == [status |-> 0, body |-> EmptyDict]

NoOutput == TextOutput("none", 0)

\* The value of a state dict, its match_context followed.
ContextOf(ref, heap) == IF ref = 0 THEN [isNone |-> TRUE, d |-> EmptyDict]
                        ELSE [isNone |-> FALSE, d |-> heap[ref]]

Deref(state, heap) ==
    [messages |-> state.messages,
     match_context |-> ContextOf(state.match_context, heap),
     simulated_balance |-> state.simulated_balance,
     bets |-> state.bets]

\* What SessionManager holds for session s.
Stored(s) == Deref(objs[sessions[s]], ctxs)

\* Reference counting: the objects still referred to.
LiveObjs(sess, c) == ({sess[s] : s \in DOMAIN sess} \cup {c[t] : t \in Requests}) \ {0}

LiveCtxs(o, channel) ==
    ({o[i].match_context : i \in DOMAIN o} \cup {channel[t].match_context : t \in Requests}) \ {0}

NoPre == Deref(NoChannel, EmptyDict)

\* No populate_cache call made yet.
NoPopulate == [cache |-> "none", fetched |-> 0, raised |-> FALSE, stored |-> FALSE]

\* No tool function is called by itself.
NoArgs == [fn |-> "none"]

NoResult == [kind |-> "none"]

NoFunction == fnIn = NoArgs /\ fnOut = NoResult

\* No balance lookup made yet.
NoLookups == lookups = [s \in Sessions |-> <<>>]

\* place_real_bet has not run and no real bet was placed.
NoRealBets == realBets = [ran |-> 0, placed |-> 0]

\* The chat handler before any request, with an empty session table.
ChatInit ==
    /\ sessions = EmptyDict
    /\ objs = EmptyDict
    /\ ctxs = EmptyDict
    /\ pc = [t \in Requests |-> "idle"]
    /\ sid = [t \in Requests |-> "s1"]
    /\ cur = [t \in Requests |-> 0]
    /\ ch = [t \in Requests |-> NoChannel]
    /\ steps = [t \in Requests |-> 0]
    /\ pending = [t \in Requests |-> NoCall]
    /\ toolOut = [t \in Requests |-> NoOutput]
    /\ response = [t \in Requests |-> NoResponse]
    /\ pre = [t \in Requests |-> NoPre]
    /\ toolCalls = 0

\* The process after import, the cache files having been found and loaded.
Init ==
    /\ cacheReady = FALSE
    /\ ChatInit
    /\ team_names = LoadedTeams
    /\ tournaments_map = LoadedTournaments
    /\ pop = "start"
    /\ calls = 0
    /\ lastCall = NoPopulate
    /\ NoFunction
    /\ NoLookups
    /\ NoRealBets

\* ---------------------------------------------------------------- actions

\* The record kept of a populate_cache call.
CallRecord(cache, r) ==
    [cache |-> cache, fetched |-> r.fetched, raised |-> r.raised, stored |-> r.stored]

\* Mutant of BackgroundTournaments: the flag is set as soon as the
\* tournaments have been populated.
BackgroundTournamentsSetsReady ==
    /\ pop = "start"
    /\ \E out \in TournamentFetches :
         LET tr == tournament_populate_cache(tournaments_map, out)
         IN /\ tournaments_map' = tr.map
            /\ lastCall' = CallRecord("tournaments", tr)
            /\ pop' = IF tr.raised THEN "ended" ELSE "teams"
            /\ cacheReady' = ~tr.raised
    /\ calls' = calls + 1
    /\ UNCHANGED <<team_names, chatVars, fnVars, lookups, realBets>>

\* populate_caches_background, line 24.
BackgroundTournaments ==
    /\ pop = "start"
    /\ \E out \in TournamentFetches :
         LET tr == tournament_populate_cache(tournaments_map, out)
         IN /\ tournaments_map' = tr.map
            /\ lastCall' = CallRecord("tournaments", tr)
            /\ pop' = IF tr.raised THEN "ended" ELSE "teams"
    /\ calls' = calls + 1
    /\ UNCHANGED <<cacheReady, team_names, chatVars, fnVars, lookups, realBets>>

\* Mutant of BackgroundTeams: the flag is set with the call of the team
\* population, not after it has returned.
BackgroundTeamsSetsReady ==
    /\ pop = "teams"
    /\ \E outs \in [1..MAX_RETRIES -> FixtureFetches] :
         LET te == team_populate_cache(team_names, outs)
         IN /\ team_names' = te.names
            /\ lastCall' = CallRecord("teams", te)
    /\ calls' = calls + 1
    /\ pop' = "flag"
    /\ cacheReady' = TRUE
    /\ UNCHANGED <<tournaments_map, chatVars, fnVars, lookups, realBets>>

\* populate_caches_background, line 25.
BackgroundTeams ==
    /\ pop = "teams"
    /\ \E outs \in [1..MAX_RETRIES -> FixtureFetches] :
         LET te == team_populate_cache(team_names, outs)
         IN /\ team_names' = te.names
            /\ lastCall' = CallRecord("teams", te)
    /\ calls' = calls + 1
    /\ pop' = "flag"
    /\ UNCHANGED <<cacheReady, tournaments_map, chatVars, fnVars, lookups, realBets>>

\* populate_caches_background, line 26.
BackgroundReady ==
    /\ pop = "flag"
    /\ cacheReady' = TRUE
    /\ pop' = "ended"
    /\ UNCHANGED <<team_names, tournaments_map, calls, lastCall, chatVars, fnVars, lookups, realBets>>

\* A call of team_name_cache.populate_cache.
TeamPopulateCache ==
    /\ calls < MaxPopulateCalls
    /\ \E outs \in [1..MAX_RETRIES -> FixtureFetches] :
         LET te == team_populate_cache(team_names, outs)
         IN /\ team_names' = te.names
            /\ lastCall' = CallRecord("teams", te)
    /\ calls' = calls + 1
    /\ UNCHANGED <<cacheReady, tournaments_map, pop, chatVars, fnVars, lookups, realBets>>

\* A call of tournament_name_cache.populate_cache.
TournamentPopulateCache ==
    /\ calls < MaxPopulateCalls
    /\ \E out \in TournamentFetches :
         LET tr == tournament_populate_cache(tournaments_map, out)
         IN /\ tournaments_map' = tr.map
            /\ lastCall' = CallRecord("tournaments", tr)
    /\ calls' = calls + 1
    /\ UNCHANGED <<cacheReady, team_names, pop, chatVars, fnVars, lookups, realBets>>

\* A request arrives.  Requests are numbered in the order they arrive, and
\* session ids, the client's free choice, in the order they are first used.
Arrives(t, s) ==
    /\ pc[t] = "idle"
    /\ t = "r1" \/ pc["r1"] # "idle"
    /\ s = "s1" \/ "s1" \in DOMAIN sessions

\* SessionManager.get_session, under the lock: the state of a new session.
NewSession(lookup) ==
    [messages |-> <<>>,
     match_context |-> 0,
     simulated_balance |-> IF ~lookup.none /\ lookup.has THEN lookup.money ELSE 0,
     bets |-> <<>>]

\* Mutant of ChatNotReady: the session is fetched, and so created, before
\* the flag is looked at.
ChatNotReadyAfterGet(t, s) ==
    /\ Arrives(t, s)
    /\ ~cacheReady
    /\ sid' = [sid EXCEPT ![t] = s]
    /\ pc' = [pc EXCEPT ![t] = "rejected"]
    /\ response' = [response EXCEPT ![t] = [NoResponse EXCEPT !.status = 503]]
    /\ pre' = [pre EXCEPT ![t] = NoPre]
    /\ toolOut' = [toolOut EXCEPT ![t] = NoOutput]
    /\ steps' = [steps EXCEPT ![t] = 0]
    /\ LET o == IF s \in DOMAIN sessions THEN sessions[s] ELSE NewId(objs)
       IN /\ sessions' = [x \in DOMAIN sessions \cup {s} |-> IF x = s THEN o ELSE sessions[x]]
          /\ objs' = IF s \in DOMAIN sessions THEN objs
                     ELSE [i \in DOMAIN objs \cup {o} |->
                              IF i = o
                              THEN NewSession([raises |-> FALSE, none |-> TRUE,
                                               has |-> FALSE, money |-> 0])
                              ELSE objs[i]]
    /\ UNCHANGED <<cacheReady, ctxs, cur, ch, pending, toolCalls>>
    /\ UNCHANGED <<catVars, fnVars, lookups, realBets>>

\* chat, lines 67-71: the request is refused while the caches are not ready.
ChatNotReady(t, s) ==
    /\ Arrives(t, s)
    /\ ~cacheReady
    /\ sid' = [sid EXCEPT ![t] = s]
    /\ pc' = [pc EXCEPT ![t] = "rejected"]
    /\ response' = [response EXCEPT ![t] = [NoResponse EXCEPT !.status = 503]]
    /\ pre' = [pre EXCEPT ![t] = NoPre]
    /\ toolOut' = [toolOut EXCEPT ![t] = NoOutput]
    /\ steps' = [steps EXCEPT ![t] = 0]
    /\ UNCHANGED <<cacheReady, sessions, objs, ctxs, cur, ch, pending, toolCalls>>
    /\ UNCHANGED <<catVars, fnVars, lookups, realBets>>

\* chat, lines 67-74: the request is accepted and get_session returns the
\* stored dict itself, creating it first when the id is new.
ChatGetSession(t, s) ==
    /\ Arrives(t, s)
    /\ cacheReady
    /\ sid' = [sid EXCEPT ![t] = s]
    /\ \E lookup \in BalanceLookups :
         LET known == s \in DOMAIN sessions
             \* get_user_balance raises inside get_session: the lock is
             \* released, nothing is stored and the exception leaves chat
             fails == ~known /\ lookup.raises
             o == IF known THEN sessions[s] ELSE NewId(objs)
             objs1 == IF known \/ fails THEN objs
                      ELSE [i \in DOMAIN objs \cup {o} |->
                               IF i = o THEN NewSession(lookup) ELSE objs[i]]
         IN /\ known => lookup = [raises |-> FALSE, none |-> TRUE, has |-> FALSE, money |-> 0]
            /\ sessions' = IF fails THEN sessions
                           ELSE [x \in DOMAIN sessions \cup {s} |->
                                    IF x = s THEN o ELSE sessions[x]]
            /\ objs' = objs1
            /\ cur' = IF fails THEN cur ELSE [cur EXCEPT ![t] = o]
            /\ pre' = [pre EXCEPT ![t] = IF fails THEN NoPre ELSE Deref(objs1[o], ctxs)]
            /\ lookups' = IF known THEN lookups
                          ELSE [lookups EXCEPT ![s] = Append(@, lookup)]
            /\ pc' = [pc EXCEPT ![t] = IF fails THEN "failed" ELSE "append"]
            /\ response' = [response EXCEPT ![t] =
                              IF fails THEN [NoResponse EXCEPT !.status = 500]
                              ELSE NoResponse]
    /\ toolOut' = [toolOut EXCEPT ![t] = NoOutput]
    /\ steps' = [steps EXCEPT ![t] = 0]
    /\ UNCHANGED <<cacheReady, ctxs, ch, pending, toolCalls>>
    /\ UNCHANGED <<catVars, fnVars, realBets>>

\* Mutant of AppendUserMessage: the history is replaced by the new message.
AppendUserMessageOnly(t) ==
    /\ pc[t] = "append"
    /\ objs' = [objs EXCEPT ![cur[t]].messages = <<Msg("human", "user", 0)>>]
    /\ pc' = [pc EXCEPT ![t] = "invoke"]
    /\ UNCHANGED <<cacheReady, sessions, ctxs, sid, cur, ch, steps, pending, toolOut,
                   response, pre, toolCalls>>
    /\ UNCHANGED <<catVars, fnVars, lookups, realBets>>

\* chat, line 77: the user message is appended to the list of the dict that
\* get_session returned.
AppendUserMessage(t) ==
    /\ pc[t] = "append"
    /\ objs' = [objs EXCEPT ![cur[t]].messages = Append(@, Msg("human", "user", 0))]
    /\ pc' = [pc EXCEPT ![t] = "invoke"]
    /\ UNCHANGED <<cacheReady, sessions, ctxs, sid, cur, ch, steps, pending, toolOut,
                   response, pre, toolCalls>>
    /\ UNCHANGED <<catVars, fnVars, lookups, realBets>>

\* chat, line 80: chat_agent.invoke reads its input.  messages is reduced with
\* operator.add into a new list; the other values are taken as they are, so
\* match_context stays the same dict object.
InvokeBegin(t) ==
    /\ pc[t] = "invoke"
    /\ ch' = [ch EXCEPT ![t] = objs[cur[t]]]
    /\ cur' = [cur EXCEPT ![t] = 0]
    /\ objs' = Restrict(objs, LiveObjs(sessions, cur'))
    /\ ctxs' = Restrict(ctxs, LiveCtxs(objs', ch'))
    /\ pc' = [pc EXCEPT ![t] = "agent"]
    /\ UNCHANGED <<cacheReady, sessions, sid, steps, pending, toolOut, response, pre, toolCalls>>
    /\ UNCHANGED <<catVars, fnVars, lookups, realBets>>

\* The graph after call_model: should_continue, and the library's check that
\* the node executions are not used up while a node is still to run.
AfterModel(messages, n) ==
    IF should_continue(messages) = "END" THEN "save"
    ELSE IF n >= RecursionLimit THEN "failed"
    ELSE "tool"

\* The end of a request that raised: chat catches nothing, so nothing is
\* saved and the locals are dropped.
Abort(t) ==
    /\ pc' = [pc EXCEPT ![t] = "failed"]
    /\ response' = [response EXCEPT ![t] = [NoResponse EXCEPT !.status = 500]]
    /\ ch' = [ch EXCEPT ![t] = NoChannel]
    /\ pending' = [pending EXCEPT ![t] = NoCall]
    /\ ctxs' = Restrict(ctxs, LiveCtxs(objs, ch'))
    /\ UNCHANGED <<cacheReady, sessions, objs, sid, cur, pre>>

\* What the decision service may answer: a final message, or a message with
\* tool calls (the call itself is read by call_tool).
DecisionKinds == {"final", "tool_call"}

\* call_model followed by should_continue; a message with tool calls carries
\* tool_calls[0] and n further calls.
CallModelFrom(t, further) ==
    /\ pc[t] = "agent"
    /\ \E k \in DecisionKinds, n \in further :
         LET messages == Append(ch[t].messages,
                                Msg("ai", k, IF k = "tool_call" THEN n ELSE 0))
         IN /\ AfterModel(messages, steps[t] + 1) # "failed"
            /\ k = "tool_call" => toolCalls < MaxToolCalls
            /\ toolCalls' = IF k = "tool_call" THEN toolCalls + 1 ELSE toolCalls
            /\ ch' = [ch EXCEPT ![t].messages = messages]
            /\ pc' = [pc EXCEPT ![t] = AfterModel(messages, steps[t] + 1)]
    /\ steps' = [steps EXCEPT ![t] = @ + 1]
    /\ toolOut' = [toolOut EXCEPT ![t] = NoOutput]
    /\ pending' = [pending EXCEPT ![t] = NoCall]
    /\ UNCHANGED <<cacheReady, sessions, objs, ctxs, sid, cur, response, pre>>
    /\ UNCHANGED <<catVars, fnVars, lookups, realBets>>

\* call_model, the decision service asking for one tool call at a time.
CallModel(t) == CallModelFrom(t, {0})

\* call_model, the decision service asking for one or two tool calls.
CallModelMulti(t) == CallModelFrom(t, {0, 1})

\* call_model asks for a tool with the last node execution: the library
\* raises its recursion error out of chat_agent.invoke.
CallModelOverLimit(t) ==
    /\ pc[t] = "agent"
    /\ AfterModel(Append(ch[t].messages, Msg("ai", "tool_call", 0)), steps[t] + 1) = "failed"
    /\ steps' = [steps EXCEPT ![t] = @ + 1]
    /\ toolOut' = [toolOut EXCEPT ![t] = NoOutput]
    /\ UNCHANGED toolCalls
    /\ Abort(t)
    /\ UNCHANGED <<catVars, fnVars, lookups, realBets>>

\* call_model: the decision service raises.
CallModelRaises(t) ==
    /\ pc[t] = "agent"
    /\ toolOut' = [toolOut EXCEPT ![t] = NoOutput]
    /\ UNCHANGED <<steps, toolCalls>>
    /\ Abort(t)
    /\ UNCHANGED <<catVars, fnVars, lookups, realBets>>

\* call_tool when the tool raises: the exception leaves invoke and chat.
CallToolRaisesFrom(t, requested) ==
    /\ pc[t] = "tool"
    /\ \E call \in requested, r \in OddsResults :
         \E b \in RealBalances(call) :
            /\ tool_executor(ch[t], call, r, b).raises
            /\ toolOut' = [toolOut EXCEPT ![t] = tool_executor(ch[t], call, r, b)]
            /\ realBets' = RealBetsAfter(realBets, call, b)
    /\ UNCHANGED <<steps, toolCalls>>
    /\ Abort(t)
    /\ UNCHANGED <<catVars, fnVars, lookups>>

CallToolRaises(t) == CallToolRaisesFrom(t, ToolCalls)

\* call_tool raising, the decision service asking about teams, tournaments
\* and odds.
CallCatalogToolRaises(t) == CallToolRaisesFrom(t, CatalogToolCalls)

\* call_tool raising, the arguments of the call fitting the schema or not.
CallDispatchToolRaises(t) == CallToolRaisesFrom(t, DispatchCalls)

\* call_tool, line 141: the tool message.
ToolMessage(out) == Msg("tool", ToolContent(out).kind, ToolContent(out).val)

\* call_tool: the tool runs, its patch is merged into the match_context dict
\* in place, and the node's return value is applied to the graph's state.
\* When this was the last node execution allowed, the agent node is still to
\* run and the library raises; the in-place update has happened by then.
CallToolFrom(t, requested) ==
    /\ pc[t] = "tool"
    /\ \E call \in requested, r \in OddsResults, b \in BalanceLookups :
         LET out == tool_executor(ch[t], call, r, b)
             new == NewContext(out)
             ref == ch[t].match_context
             \* state.get("match_context") or {}: a new dict unless one with keys is there
             fresh == ref = 0 \/ ~Truthy(ctxs[ref])
             c == IF fresh THEN NewId(ctxs) ELSE ref
             merged == Update(IF fresh THEN EmptyDict ELSE ctxs[ref], new)
             ctxs1 == IF Truthy(new)
                      THEN [i \in DOMAIN ctxs \cup {c} |-> IF i = c THEN merged ELSE ctxs[i]]
                      ELSE ctxs
             sim == SimulationUpdates(new, merged)
             ch1 == IF Truthy(new)
                    THEN [messages |-> Append(ch[t].messages, ToolMessage(out)),
                          match_context |-> c,
                          simulated_balance |-> BalanceAfter(ch[t].simulated_balance, sim),
                          bets |-> BetsAfter(ch[t].bets, sim)]
                    ELSE [ch[t] EXCEPT !.messages = Append(@, ToolMessage(out))]
         IN /\ b \in RealBalances(call)
            /\ ~out.raises
            /\ realBets' = RealBetsAfter(realBets, call, b)
            /\ toolOut' = [toolOut EXCEPT ![t] = out]
            /\ pending' = [pending EXCEPT ![t] = call]
            /\ IF steps[t] + 1 >= RecursionLimit
               THEN /\ ch' = [ch EXCEPT ![t] = NoChannel]
                    /\ pc' = [pc EXCEPT ![t] = "failed"]
                    /\ response' = [response EXCEPT ![t] = [NoResponse EXCEPT !.status = 500]]
               ELSE /\ ch' = [ch EXCEPT ![t] = ch1]
                    /\ pc' = [pc EXCEPT ![t] = "agent"]
                    /\ response' = response
            /\ ctxs' = Restrict(ctxs1, LiveCtxs(objs, ch'))
    /\ steps' = [steps EXCEPT ![t] = @ + 1]
    /\ UNCHANGED <<cacheReady, sessions, objs, sid, cur, pre, toolCalls>>
    /\ UNCHANGED <<catVars, fnVars, lookups>>

\* call_tool, the decision service asking for any of the calls of ToolCalls.
CallTool(t) == CallToolFrom(t, ToolCalls)

\* call_tool, the decision service asking about teams, tournaments and odds.
CallCatalogTool(t) == CallToolFrom(t, CatalogToolCalls)

\* call_tool, the arguments of the call fitting the schema or not.
CallDispatchTool(t) == CallToolFrom(t, DispatchCalls)

\* Mutant of SaveSession: the final state is stored under every session id.
SaveSessionUnderEveryId(t) ==
    /\ pc[t] = "save"
    /\ LET o == NewId(objs)
           objs1 == [i \in DOMAIN objs \cup {o} |-> IF i = o THEN ch[t] ELSE objs[i]]
       IN /\ sessions' = [x \in DOMAIN sessions |-> o]
          /\ cur' = [cur EXCEPT ![t] = o]
          /\ objs' = Restrict(objs1, LiveObjs(sessions', cur'))
    /\ ch' = [ch EXCEPT ![t] = NoChannel]
    /\ ctxs' = Restrict(ctxs, LiveCtxs(objs', ch'))
    /\ pc' = [pc EXCEPT ![t] = "respond"]
    /\ pre' = [pre EXCEPT ![t] = NoPre]
    /\ UNCHANGED <<cacheReady, sid, steps, pending, toolOut, response, toolCalls>>
    /\ UNCHANGED <<catVars, fnVars, lookups, realBets>>

\* chat, line 86: the dict that invoke returned replaces the stored one,
\* under the lock; chat keeps its reference to it (response_state).
SaveSession(t) ==
    /\ pc[t] = "save"
    /\ LET o == NewId(objs)
           objs1 == [i \in DOMAIN objs \cup {o} |-> IF i = o THEN ch[t] ELSE objs[i]]
       IN /\ sessions' = [sessions EXCEPT ![sid[t]] = o]
          /\ cur' = [cur EXCEPT ![t] = o]
          /\ objs' = Restrict(objs1, LiveObjs(sessions', cur'))
    /\ ch' = [ch EXCEPT ![t] = NoChannel]
    /\ ctxs' = Restrict(ctxs, LiveCtxs(objs', ch'))
    /\ pc' = [pc EXCEPT ![t] = "respond"]
    /\ pre' = [pre EXCEPT ![t] = NoPre]
    /\ UNCHANGED <<cacheReady, sid, steps, pending, toolOut, response, toolCalls>>
    /\ UNCHANGED <<catVars, fnVars, lookups, realBets>>

\* chat, lines 88-97: the answer is built from the dict that was saved, read
\* after the lock was released: its last message, as it is by then, and its
\* balance.
ChatRespond(t) ==
    /\ pc[t] = "respond"
    /\ response' = [response EXCEPT ![t] =
                      [status |-> 200,
                       body |-> ChatResponse(
                          [response |-> [kind |-> Last(objs[cur[t]].messages).kind,
                                         val |-> Last(objs[cur[t]].messages).val],
                           session_id |-> sid[t],
                           balance |-> objs[cur[t]].simulated_balance])]]
    /\ cur' = [cur EXCEPT ![t] = 0]
    /\ objs' = Restrict(objs, LiveObjs(sessions, cur'))
    /\ ctxs' = Restrict(ctxs, LiveCtxs(objs', ch))
    /\ pc' = [pc EXCEPT ![t] = "done"]
    /\ UNCHANGED <<cacheReady, sessions, sid, ch, steps, pending, toolOut, pre, toolCalls>>
    /\ UNCHANGED <<catVars, fnVars, lookups, realBets>>

Next ==
    \/ BackgroundTournaments
    \/ BackgroundTeams
    \/ BackgroundReady
    \/ \E t \in Requests, s \in Sessions : ChatNotReady(t, s)
    \/ \E t \in Requests, s \in Sessions : ChatGetSession(t, s)
    \/ \E t \in Requests : AppendUserMessage(t)
    \/ \E t \in Requests : InvokeBegin(t)
    \/ \E t \in Requests : CallModel(t)
    \/ \E t \in Requests : CallModelOverLimit(t)
    \/ \E t \in Requests : CallModelRaises(t)
    \/ \E t \in Requests : CallTool(t)
    \/ \E t \in Requests : CallToolRaises(t)
    \/ \E t \in Requests : SaveSession(t)
    \/ \E t \in Requests : ChatRespond(t)

Spec == Init /\ [][Next]_vars

\* The process from its start: the cache files may exist or not, the
\* background thread populates the caches step by step, and the clients ask
\* about teams, tournaments and odds.
StartupInit ==
    /\ cacheReady = FALSE
    /\ ChatInit
    /\ team_names \in {<<>>, LoadedTeams}
    /\ tournaments_map \in {EmptyDict, LoadedTournaments}
    /\ pop = "start"
    /\ calls = 0
    /\ lastCall = NoPopulate
    /\ NoFunction
    /\ NoLookups
    /\ NoRealBets

StartupNext ==
    \/ BackgroundTournaments
    \/ BackgroundTeams
    \/ BackgroundReady
    \/ \E t \in Requests, s \in Sessions : ChatNotReady(t, s)
    \/ \E t \in Requests, s \in Sessions : ChatGetSession(t, s)
    \/ \E t \in Requests : AppendUserMessage(t)
    \/ \E t \in Requests : InvokeBegin(t)
    \/ \E t \in Requests : CallModel(t)
    \/ \E t \in Requests : CallModelOverLimit(t)
    \/ \E t \in Requests : CallModelRaises(t)
    \/ \E t \in Requests : CallCatalogTool(t)
    \/ \E t \in Requests : CallCatalogToolRaises(t)
    \/ \E t \in Requests : SaveSession(t)
    \/ \E t \in Requests : ChatRespond(t)

StartupSpec == StartupInit /\ [][StartupNext]_vars

\* The two cache objects by themselves: populate_cache called on them, one
\* call at a time, the cache files having been found or not.
CacheInit ==
    /\ cacheReady = FALSE
    /\ ChatInit
    /\ team_names \in {<<>>, LoadedTeams}
    /\ tournaments_map \in {EmptyDict, LoadedTournaments}
    /\ pop = "start"
    /\ calls = 0
    /\ lastCall = NoPopulate
    /\ NoFunction
    /\ NoLookups
    /\ NoRealBets

CacheNext ==
    \/ TeamPopulateCache
    \/ TournamentPopulateCache

CacheSpec == CacheInit /\ [][CacheNext]_vars

\* The turns of a process whose caches were loaded from their files and
\* whose background thread has ended, the decision service asking for one
\* or two tool calls in a message, with arguments that fit the tool's schema
\* or not.
ReadyInit ==
    /\ cacheReady = TRUE
    /\ ChatInit
    /\ team_names = LoadedTeams
    /\ tournaments_map = LoadedTournaments
    /\ pop = "ended"
    /\ calls = 2
    /\ lastCall = [cache |-> "teams", fetched |-> 0, raised |-> FALSE, stored |-> FALSE]
    /\ NoFunction
    /\ NoLookups
    /\ NoRealBets

TurnNext ==
    \/ \E t \in Requests, s \in Sessions : ChatGetSession(t, s)
    \/ \E t \in Requests : AppendUserMessage(t)
    \/ \E t \in Requests : InvokeBegin(t)
    \/ \E t \in Requests : CallModelMulti(t)
    \/ \E t \in Requests : CallModelOverLimit(t)
    \/ \E t \in Requests : CallModelRaises(t)
    \/ \E t \in Requests : CallDispatchTool(t)
    \/ \E t \in Requests : CallDispatchToolRaises(t)
    \/ \E t \in Requests : SaveSession(t)
    \/ \E t \in Requests : ChatRespond(t)

TurnSpec == ReadyInit /\ [][TurnNext]_vars

\* The turns of the same process, the decision service naming any function
\* of chat_tools, listed as a tool or not.
RegistryNext ==
    \/ \E t \in Requests, s \in Sessions : ChatGetSession(t, s)
    \/ \E t \in Requests : AppendUserMessage(t)
    \/ \E t \in Requests : InvokeBegin(t)
    \/ \E t \in Requests : CallModel(t)
    \/ \E t \in Requests : CallModelOverLimit(t)
    \/ \E t \in Requests : CallModelRaises(t)
    \/ \E t \in Requests : CallToolFrom(t, RegistryCalls)
    \/ \E t \in Requests : CallToolRaisesFrom(t, RegistryCalls)
    \/ \E t \in Requests : SaveSession(t)
    \/ \E t \in Requests : ChatRespond(t)

RegistrySpec == ReadyInit /\ [][RegistryNext]_vars

\* A call of a tool function by itself returns.
Return(value) ==
    /\ fnOut = NoResult
    /\ fnOut' = value
    /\ UNCHANGED <<cacheReady, chatVars, catVars, fnIn, lookups, realBets>>

\* The process at rest, about to call one tool function.
AtRest ==
    /\ cacheReady = TRUE
    /\ ChatInit
    /\ team_names = LoadedTeams
    /\ tournaments_map = LoadedTournaments
    /\ pop = "ended"
    /\ calls = 2
    /\ lastCall = [cache |-> "teams", fetched |-> 0, raised |-> FALSE, stored |-> FALSE]
    /\ fnOut = NoResult
    /\ NoLookups
    /\ NoRealBets

\* Names resolved against a catalog: get_best_match and the two tools that
\* resolve by themselves.
ResolveInit ==
    /\ AtRest
    /\ fnIn \in {in \in ResolveCalls : Len(in.scores) = Len(in.names)}

Resolve ==
    /\ fnIn.fn \in {"get_best_match", "find_team_fixture", "get_teams_by_tournament"}
    /\ Return([kind |-> "resolved", name |-> resolve(fnIn)])

ResolveNext == Resolve

ResolveSpec == ResolveInit /\ [][ResolveNext]_vars

\* _get_match_odds_data called by itself.
OddsInit == AtRest /\ fnIn \in OddsCalls

OddsForMatch ==
    /\ fnIn.fn = "get_match_odds_data"
    /\ Return(match_odds_data(fnIn.names, fnIn.team_one, fnIn.team_two, fnIn.feed, fnIn.odds))

OddsNext == OddsForMatch

OddsSpec == OddsInit /\ [][OddsNext]_vars

\* _parse_date_range and get_fixtures_by_date called by themselves, on any
\* day of a month of 28 to 31 days.
DateInit ==
    /\ AtRest
    /\ fnIn \in DateCalls

ParseDateRange ==
    /\ fnIn.fn = "parse_date_range"
    /\ Return([kind |-> "range", range |-> parse_date_range(fnIn.query, fnIn.today, fnIn.parsed)])

GetFixturesByDate ==
    /\ fnIn.fn = "get_fixtures_by_date"
    /\ Return(get_fixtures_by_date(fnIn.parsed, fnIn.feed))

DateNext == ParseDateRange \/ GetFixturesByDate

DateSpec == DateInit /\ [][DateNext]_vars

\* _analyze_daily_odds called by itself.
AnalysisInit == AtRest /\ fnIn \in AnalysisCalls

AnalyzeDailyOdds ==
    /\ fnIn.fn = "analyze_daily_odds"
    /\ Return(analyze_daily_odds(fnIn.query, fnIn.today, fnIn.parsed, fnIn.feed))

AnalysisNext == AnalyzeDailyOdds

AnalysisSpec == AnalysisInit /\ [][AnalysisNext]_vars

\* The merge of call_tool by itself.
MergeInit ==
    /\ AtRest
    /\ fnIn \in {[fn |-> "merge_context", context |-> c, out |-> o] :
                    c \in MergeContexts, o \in MergeOutputs}

MergeContext ==
    /\ fnIn.fn = "merge_context"
    /\ Return(merge_context(fnIn.context, fnIn.out))

MergeSpec == MergeInit /\ [][MergeContext]_vars

\* ------------------------------------------------------------ the claims

\* The turn of request t is running: get_session has returned and
\* save_session has not.
InFlight(t) == pc[t] \in {"append", "invoke", "agent", "tool", "save"}

\* Request t holds a session state: its turn is running, or it has saved it
\* and has still to build its answer from it.
Holds(t) == InFlight(t) \/ pc[t] = "respond"

InGraph(t) == pc[t] \in {"agent", "tool"}

\* The request's step is a tool step that returned to the agent node.
ToolStep(t) == pc[t] = "tool" /\ pc'[t] = "agent"

\* The tool step ran the bet simulator, and the bet was accepted.
BetAccepted(t) ==
    /\ ToolStep(t)
    /\ pending'[t].name = "place_simulated_bet"
    /\ toolOut'[t].json

ChannelContext(t) == ContextOf(ch[t].match_context, ctxs)

\* The answer text a request's response carries, if any.
ResponseText(t) ==
    IF "response" \in DOMAIN response[t].body THEN response[t].body.response
    ELSE [kind |-> "none", val |-> 0]

\* C1: at most one turn is in flight per session id at any time.
C1_OneTurnInFlightPerSession ==
    \A t, u \in Requests : (t # u /\ InFlight(t) /\ InFlight(u)) => sid[t] # sid[u]

\* C2: a turn that uses up the round-trip cap ends with the fixed degraded
\* "unable to complete" response, not with an unhandled error.
C2_CapEndsInDegradedResponse ==
    \A t \in Requests :
        (pc[t] \in {"done", "failed"} /\ steps[t] >= RecursionLimit
            /\ ResponseText(t).kind # "final" /\ ~toolOut[t].raises)
            => /\ response[t].status = 200
               /\ ResponseText(t).kind = "unable_to_complete"

\* C3: after a turn that failed part-way, the stored state of its session is
\* what it was when the turn began (no other request used the session).
C3_AbortedTurnLeavesStoredState ==
    \A t \in Requests :
        (pc[t] = "failed" /\ pre[t] # NoPre
            /\ \A u \in Requests \ {t} : pc[u] = "idle" \/ sid[u] # sid[t])
            => Stored(sid[t]) = pre[t]

\* C4: the simulated balance is never negative, in the session table and in
\* every running turn, for sessions seeded with a balance >= 0.
C4_BalanceNeverNegative ==
    /\ \A o \in DOMAIN objs : objs[o].simulated_balance >= 0
    /\ \A t \in Requests : ch[t].simulated_balance >= 0

C4_Witness ==
    \E t \in Requests :
        /\ pc[t] = "agent"
        /\ Len(ch[t].bets) = 2
        /\ ch[t].simulated_balance = 0

\* C5: an accepted bet of stake a lowers the balance by exactly a and appends
\* exactly one ledger entry (match, outcome, a); no step of a turn, no load
\* and no save ever raises a balance, so winnings are never credited.
C5_BetDebitsStakeOnly ==
    [][\A t \in Requests :
          /\ BetAccepted(t) =>
                /\ ch'[t].simulated_balance = ch[t].simulated_balance - pending'[t].amount
                /\ ch'[t].bets =
                      Append(ch[t].bets,
                             [match |-> toolOut'[t].parsed.context.new_bet.match,
                              outcome_bet_on |-> "home_win",
                              amount_bet |-> pending'[t].amount])
          /\ (InGraph(t) /\ InGraph(t)') =>
                ch'[t].simulated_balance <= ch[t].simulated_balance
          /\ (pc[t] = "invoke" /\ pc'[t] = "agent") =>
                ch'[t].simulated_balance = objs[cur[t]].simulated_balance
          /\ (pc[t] = "save" /\ pc'[t] = "respond") =>
                Stored(sid[t])'.simulated_balance = ch[t].simulated_balance
      ]_vars

C5_Witness ==
    \E t \in Requests :
        /\ pc[t] = "done"
        /\ sid[t] \in DOMAIN sessions
        /\ Len(Stored(sid[t]).bets) = 2
        /\ Stored(sid[t]).bets[1].amount_bet = 1
        /\ Stored(sid[t]).simulated_balance = 0

\* The odds lookup behind a bet gives a snapshot: it does not raise and its
\* dict is no error.
OddsResolve(r) ==
    /\ ~get_match_odds_data(r).raises
    /\ "error" \notin DOMAIN get_match_odds_data(r).d

\* The call is a bet of more than the balance request t works on.
OverBalanceBet(t, call) ==
    /\ call.name = "place_simulated_bet"
    /\ call.amount > ch[t].simulated_balance

\* C6, as stated: every bet of more than the current balance fails with
\* InsufficientBalance, the text carrying the current balance, and leaves
\* balance and bets as they were.
C6_InsufficientBalanceRejected ==
    [][\A t \in Requests :
          (/\ pc[t] = "tool" /\ pc'[t] \in {"agent", "failed"}
           /\ OverBalanceBet(t, pending'[t]))
          => /\ toolOut'[t] = TextOutput("InsufficientBalance", ch[t].simulated_balance)
             /\ pc'[t] = "agent" =>
                   /\ ch'[t].simulated_balance = ch[t].simulated_balance
                   /\ ch'[t].bets = ch[t].bets
      ]_vars

\* C6, amended: a bet of more than the current balance is never accepted and
\* never clamped, and leaves balance and bets as they were; when the odds of
\* the match resolve it fails with InsufficientBalance, the text carrying the
\* current balance, and when they do not it fails with the error of the odds
\* lookup or with the exception that lookup raises.
C6_OverBalanceBetRefused ==
    [][\A t \in Requests :
          /\ (/\ pc[t] = "tool" /\ pc'[t] \in {"agent", "failed"}
              /\ OverBalanceBet(t, pending'[t]))
             => /\ toolOut'[t] \in {TextOutput("InsufficientBalance", ch[t].simulated_balance),
                                    TextOutput("odds_error", 0)}
                /\ pc'[t] = "agent" =>
                      /\ ch'[t].simulated_balance = ch[t].simulated_balance
                      /\ ch'[t].bets = ch[t].bets
                      /\ Last(ch'[t].messages)
                            = Msg("tool", toolOut'[t].raw.kind, toolOut'[t].raw.val)
          /\ pc[t] = "tool"
             => /\ \A a \in Amounts, r \in OddsResults :
                      a > ch[t].simulated_balance
                         => LET out == place_simulated_bet(InjectedBalance(ch[t]), a, r)
                            IN IF OddsResolve(r)
                               THEN out = TextOutput("InsufficientBalance",
                                                     ch[t].simulated_balance)
                               ELSE out \in {Raised, TextOutput("odds_error", 0)}
                /\ pc'[t] # "tool" =>
                      \A s \in DOMAIN sessions :
                         /\ Stored(s)'.simulated_balance = Stored(s).simulated_balance
                         /\ Stored(s)'.bets = Stored(s).bets
      ]_vars

C6_Witness ==
    \E t \in Requests :
        /\ pc[t] = "agent"
        /\ pending[t] = [name |-> "place_simulated_bet", amount |-> 2, args |-> "ok"]
        /\ toolOut[t].raw = [kind |-> "InsufficientBalance", val |-> 1]
        /\ ch[t].simulated_balance = 1
        /\ Len(ch[t].bets) = 1

\* C7: a bet with amount <= 0 fails with InvalidAmount and leaves balance,
\* bets and match context as they were.
C7_InvalidAmountRejected ==
    [][\A t \in Requests :
          (/\ ToolStep(t)
           /\ pending'[t].name = "place_simulated_bet"
           /\ pending'[t].amount <= 0)
          => /\ toolOut'[t].raw.kind = "InvalidAmount"
             /\ ~toolOut'[t].json
             /\ ch'[t].simulated_balance = ch[t].simulated_balance
             /\ ch'[t].bets = ch[t].bets
             /\ ch'[t].match_context = ch[t].match_context
             /\ ChannelContext(t)' = ChannelContext(t)
      ]_vars

C7_Witness ==
    \E t \in Requests :
        /\ pc[t] = "agent"
        /\ pending[t] = [name |-> "place_simulated_bet", amount |-> -1, args |-> "ok"]
        /\ toolOut[t].raw.kind = "InvalidAmount"
        /\ ch[t].simulated_balance = 2

\* C8: the balance of a running turn changes only in a tool step that ran
\* the bet simulator, by the delta that step returned; loading a session
\* hands the stored balance to the turn and saving stores the turn's balance.
C8_BalanceChangesOnlyByBetDelta ==
    [][\A t \in Requests :
          /\ (InGraph(t) /\ pc'[t] \in {"agent", "tool", "save"}
                /\ ch'[t].simulated_balance # ch[t].simulated_balance)
             => /\ BetAccepted(t)
                /\ "balance_change" \in DOMAIN toolOut'[t].parsed.context
                /\ ch'[t].simulated_balance =
                      ch[t].simulated_balance + toolOut'[t].parsed.context.balance_change
          /\ (pc[t] = "invoke" /\ pc'[t] = "agent") =>
                ch'[t].simulated_balance = objs[cur[t]].simulated_balance
          /\ \A s \in DOMAIN sessions :
                Stored(s)'.simulated_balance # Stored(s).simulated_balance
                   => \E u \in Requests :
                         /\ pc[u] = "save" /\ pc'[u] = "respond" /\ sid[u] = s
                         /\ Stored(s)'.simulated_balance = ch[u].simulated_balance
      ]_vars

C8_Witness ==
    \E t \in Requests :
        /\ pc[t] = "agent"
        /\ pending[t].name = "get_odds_for_match"
        /\ toolOut[t].json
        /\ "balance_change" \in DOMAIN ChannelContext(t).d
        /\ "match" \in DOMAIN ChannelContext(t).d
        /\ ch[t].simulated_balance = 1

\* C9: merging a patch with no balance delta and no ledger entry leaves
\* balance and bets unchanged, sets the keys of the patch to the patch's
\* values and keeps every other key of the match context.
PatchOf(t) == NewContext(toolOut[t])

C9_PatchWithoutDeltaMerge ==
    [][\A t \in Requests :
          (/\ ToolStep(t)
           /\ Truthy(PatchOf(t)')
           /\ "balance_change" \notin DOMAIN PatchOf(t)'
           /\ "new_bet" \notin DOMAIN PatchOf(t)')
          => /\ ch'[t].simulated_balance = ch[t].simulated_balance
             /\ ch'[t].bets = ch[t].bets
             /\ ~ChannelContext(t)'.isNone
             /\ DOMAIN ChannelContext(t)'.d =
                   DOMAIN ChannelContext(t).d \cup DOMAIN PatchOf(t)'
             /\ \A k \in DOMAIN PatchOf(t)' : ChannelContext(t)'.d[k] = PatchOf(t)'[k]
             /\ \A k \in DOMAIN ChannelContext(t).d \ DOMAIN PatchOf(t)' :
                   ChannelContext(t)'.d[k] = ChannelContext(t).d[k]
      ]_vars

C9_Witness ==
    \E t \in Requests :
        /\ pc[t] = "agent"
        /\ pending[t].name = "get_odds_for_match"
        /\ toolOut[t].json
        /\ DOMAIN ChannelContext(t).d = OddsKeys \cup {"balance_change", "new_bet"}
        /\ ChannelContext(t).d.balance_change = -1

\* C10: a tool step that fails does not abort the turn: no request ends as
\* failed because its tool raised.
C10_ToolFailureDoesNotAbortTurn ==
    \A t \in Requests : pc[t] = "failed" => ~toolOut[t].raises

\* C11: a request that arrives while the caches are not ready is answered
\* with status 503 and has no effect: no session is created or read, the
\* decision service is not called and no tool runs, then or later.
C11_NotReadyRejectedWithoutEffect ==
    [][\A t \in Requests :
          /\ (pc[t] = "idle" /\ pc'[t] # "idle" /\ ~cacheReady)
             => /\ pc'[t] = "rejected"
                /\ response'[t].status = 503
                /\ response'[t].body = EmptyDict
                /\ UNCHANGED <<sessions, objs, ctxs, cur, ch, toolCalls>>
          /\ pc[t] = "rejected"
             => /\ pc'[t] = "rejected"
                /\ response'[t] = response[t]
                /\ ch'[t] = NoChannel /\ cur'[t] = 0 /\ steps'[t] = 0
      ]_vars

C11_Witness ==
    /\ pc["r1"] = "rejected"
    /\ response["r1"].status = 503
    /\ pc["r2"] = "done"
    /\ DOMAIN sessions = {sid["r2"]}

\* C12: while a turn is running on a session that no other request uses, the
\* state SessionManager holds for the session is the state from before the
\* turn.
C12_TurnStateHiddenUntilSaved ==
    \A t \in Requests :
        (InFlight(t) /\ \A u \in Requests \ {t} : pc[u] = "idle" \/ sid[u] # sid[t])
            => Stored(sid[t]) = pre[t]

\* C13: a turn is done exactly when the latest decision carries no tool call;
\* the last message saved is that assistant message, and the response carries
\* its text and the balance saved for the session.
C13_DoneOnFinalWithTextAndBalance ==
    [][\A t \in Requests :
          /\ (pc[t] = "agent" /\ Len(ch'[t].messages) = Len(ch[t].messages) + 1)
                => (pc'[t] = "save" <=> Last(ch'[t].messages) = Msg("ai", "final", 0))
          /\ (pc[t] # "save" /\ pc'[t] = "save") => pc[t] = "agent"
          /\ (pc[t] # "respond" /\ pc'[t] = "respond")
                => /\ pc[t] = "save"
                   /\ Last(Stored(sid[t])'.messages) = Msg("ai", "final", 0)
          /\ (pc[t] # "done" /\ pc'[t] = "done")
                => /\ pc[t] = "respond"
                   /\ response'[t].status = 200
                   /\ ResponseText(t)' = [kind |-> "final", val |-> 0]
                   /\ "balance" \in DOMAIN response'[t].body
                   /\ response'[t].body.balance = Stored(sid[t])'.simulated_balance
      ]_vars

\* Request t holds the object the session table holds, and every other
\* request on its session has not begun or has completed: nothing has
\* touched the stored state since t fetched it.
StartsFromSaved(t) ==
    /\ cur[t] = sessions[sid[t]]
    /\ \A u \in Requests \ {t} : sid[u] # sid[t] \/ pc[u] \in {"idle", "rejected", "done"}

\* C14: saving stores the final state of the turn as it is; get_session hands
\* the stored state to the next turn, which starts from it with the new user
\* message appended and match context, balance and bets as stored.
C14_NextTurnStartsFromSavedState ==
    [][\A t \in Requests :
          /\ (pc[t] = "save" /\ pc'[t] = "respond")
                => Stored(sid[t])' = Deref(ch[t], ctxs)
          /\ \A s \in DOMAIN sessions :
                (pc[t] = "idle" /\ pc'[t] = "append" /\ sid'[t] = s)
                   => /\ pre'[t] = Stored(s)
                      /\ Stored(s)' = Stored(s)
          /\ (pc[t] = "invoke" /\ pc'[t] = "agent" /\ StartsFromSaved(t))
                => Deref(ch'[t], ctxs') =
                      [pre[t] EXCEPT !.messages = Append(@, Msg("human", "user", 0))]
      ]_vars

C14_Witness ==
    /\ pc["r1"] = "done"
    /\ pc["r2"] = "agent" /\ steps["r2"] = 0
    /\ sid["r2"] = sid["r1"]
    /\ Len(ch["r2"].messages) = 5
    /\ Len(ch["r2"].bets) = 1
    /\ ~ChannelContext("r2").isNone

\* A step is a call of populate_cache on the given cache.
PopulateCall(cache) == calls' = calls + 1 /\ lastCall'.cache = cache

\* Every query against the team catalog is answered not-found.
NothingResolves ==
    \A scores \in [1..Len(team_names) -> ScoreValues] :
        get_best_match(team_names, scores, 80) = NotFound

\* The start-up under the scheduling of the code: the background thread
\* started by on_startup runs each of its steps once it can.
StartupLiveSpec ==
    /\ StartupInit
    /\ [][StartupNext]_vars
    /\ WF_vars(BackgroundTournaments)
    /\ WF_vars(BackgroundTeams)
    /\ WF_vars(BackgroundReady)

\* C15: the background population always finishes and cacheReady eventually
\* becomes true, also when every upstream fetch fails or raises.
C15_EventuallyReady == <>(pop = "ended" /\ cacheReady)

\* C16: a population call makes at most MAX_RETRIES fetches on the team
\* catalog and one on the tournament catalog, stops at the first attempt that
\* gets a list of fixtures, and never raises, whatever the fetches do.
C16_PopulationBoundedNeverRaises ==
    /\ ~lastCall.raised
    /\ lastCall.cache = "teams" => lastCall.fetched <= MAX_RETRIES
    /\ lastCall.cache = "tournaments" => lastCall.fetched <= 1
    /\ \A outs \in [1..MAX_RETRIES -> FixtureFetches] :
          LET r == team_populate_cache(team_names, outs)
          IN /\ ~r.raised
             /\ r.fetched <= MAX_RETRIES
             /\ \A i \in 1..MAX_RETRIES :
                   (/\ team_names = <<>>
                    /\ outs[i].kind \in {"ok", "no_names"}
                    /\ \A j \in 1..(i - 1) : outs[j].kind \notin {"ok", "no_names"})
                   => r.fetched = i /\ r.names = outs[i].names
    /\ \A out \in TournamentFetches :
          LET r == tournament_populate_cache(tournaments_map, out)
          IN ~r.raised /\ r.fetched <= 1

\* C17: a population call on a catalog that is not empty makes no upstream
\* fetch and leaves the catalog as it is; a catalog that is not empty never
\* changes.
C17_PopulatedCatalogNotRefetched ==
    [][/\ (PopulateCall("teams") /\ team_names # <<>>)
            => lastCall'.fetched = 0 /\ ~lastCall'.raised
       /\ (PopulateCall("tournaments") /\ Truthy(tournaments_map))
            => lastCall'.fetched = 0 /\ ~lastCall'.raised
       /\ team_names # <<>> => team_names' = team_names
       /\ Truthy(tournaments_map) => tournaments_map' = tournaments_map
      ]_vars

C17_Witness ==
    /\ calls >= 2
    /\ team_names = <<"Pisa", "Napoli">>
    /\ lastCall = [cache |-> "teams", fetched |-> 0, raised |-> FALSE, stored |-> FALSE]

\* C18: after a population whose every attempt failed, a later population
\* call on that catalog makes no upstream fetch, and every query against
\* the empty catalog is answered not-found.
C18_ExhaustedCatalogNotRefetched ==
    [][/\ (/\ lastCall = [cache |-> "teams", fetched |-> MAX_RETRIES,
                           raised |-> FALSE, stored |-> FALSE]
           /\ PopulateCall("teams"))
            => lastCall'.fetched = 0 /\ team_names' = <<>>
       /\ (/\ lastCall = [cache |-> "tournaments", fetched |-> 1,
                           raised |-> FALSE, stored |-> FALSE]
           /\ PopulateCall("tournaments"))
            => lastCall'.fetched = 0 /\ tournaments_map' = EmptyDict
       /\ team_names = <<>> => NothingResolves
      ]_vars

\* The background thread is between its first population call and its end.
PopulationInProgress == pop \in {"teams", "flag"}

\* C19: the one background thread populates each catalog once, the
\* tournaments and then the teams; a request that arrives before the thread
\* has ended is rejected, so a request is served only after both populations
\* have returned, and no catalog changes while a request is served.
C19_PopulationExclusiveAndGated ==
    [][/\ PopulateCall("tournaments") => pop = "start" /\ calls = 0
       /\ PopulateCall("teams") => pop = "teams" /\ calls = 1
       /\ \A t \in Requests :
             /\ (pc[t] = "idle" /\ pc'[t] # "idle" /\ pop # "ended")
                   => pc'[t] = "rejected" /\ response'[t].status = 503
             /\ InFlight(t) => /\ pop = "ended"
                                /\ lastCall.cache = "teams"
                                /\ UNCHANGED <<team_names, tournaments_map>>
      ]_vars

C19_Witness ==
    /\ PopulationInProgress
    /\ Truthy(tournaments_map) /\ team_names = <<>>
    /\ lastCall = [cache |-> "tournaments", fetched |-> 1, raised |-> FALSE, stored |-> TRUE]
    /\ pc["r1"] = "rejected"
    /\ response["r1"].status = 503

\* C20: a turn whose tool finds its catalog empty ends there, with the
\* fixed apology as its response; the tool's text is not handed back to the
\* decision step.
C20_CatalogUnavailableShortCircuits ==
    \A t \in Requests :
        toolOut[t].raw.kind \in {"team_list_unavailable", "tournament_list_empty"}
            => /\ pc[t] = "done"
               /\ ResponseText(t).kind = "apology"

\* The request's step is a tool step that was asked for a name outside the
\* tool list or was given arguments that do not fit the tool's schema.
InvalidDispatch(t) ==
    /\ pc[t] = "tool"
    /\ pc'[t] # "tool"
    /\ toolOut'[t].raw.kind \in {"invalid_tool", "validation_error"}

\* C21: a tool call with arguments that do not fit the schema, or with a
\* name outside the tool list, is answered by a tool message carrying the
\* error and the turn goes back to the decision step; what the upstream
\* would answer has no part in it, and nothing of the session changes but
\* the message appended to the turn's history.
C21_InvalidCallAnsweredBeforeInvocation ==
    [][\A t \in Requests :
          (InvalidDispatch(t) /\ steps[t] + 1 < RecursionLimit)
             => /\ pc'[t] = "agent"
                /\ ~toolOut'[t].raises
                /\ ch'[t] = [ch[t] EXCEPT !.messages =
                                 Append(@, Msg("tool", toolOut'[t].raw.kind, 0))]
                /\ \A call \in DispatchCalls, r1, r2 \in OddsResults :
                      (call.name \notin tools \/ call.args # "ok")
                         => tool_executor(ch[t], call, r1, CHOOSE b \in RealBalances(call) : TRUE)
                               = tool_executor(ch[t], call, r2, CHOOSE b \in RealBalances(call) : TRUE)
                /\ UNCHANGED <<sessions, objs, ctxs>>
      ]_vars

\* C22: an upstream fetch that fails never makes a tool raise: no tool step
\* ends with an exception, so no request fails because of one.
C22_FetchFailureNeverRaises == \A t \in Requests : ~toolOut[t].raises

\* The messages of the running turn: those after the last user message.
LastHuman(msgs) ==
    CHOOSE i \in 0..Len(msgs) :
        /\ i = 0 \/ msgs[i].role = "human"
        /\ \A j \in (i + 1)..Len(msgs) : msgs[j].role # "human"

TurnTail(msgs) == SubSeq(msgs, LastHuman(msgs) + 1, Len(msgs))

CountRole(tail, role) == Cardinality({i \in 1..Len(tail) : tail[i].role = role})

\* Assistant messages and tool messages take turns, beginning with an
\* assistant message; every assistant message but the last asks for tools
\* and is followed by one tool message.
Alternates(tail) ==
    \A i \in 1..Len(tail) :
        /\ i % 2 = 1 => /\ tail[i].role = "ai"
                        /\ i < Len(tail) => tail[i].kind = "tool_call"
        /\ i % 2 = 0 => /\ tail[i].role = "tool"
                        /\ tail[i - 1].kind = "tool_call"

\* The turn's messages when the graph has ended.
EndedTurn(tail) ==
    /\ Alternates(tail)
    /\ Len(tail) % 2 = 1
    /\ Last(tail).kind = "final"
    /\ CountRole(tail, "ai") = CountRole(tail, "tool") + 1

\* C30: in a turn the decision step and the tool step take turns: a
\* decision that asks for one or more tool calls is followed by one tool
\* step and one tool message, then by one decision; a turn that ends has had
\* one decision more than it had tool steps.
C30_DecisionAndToolStepsAlternate ==
    [][\A t \in Requests :
          /\ pc'[t] \in {"agent", "tool", "save"}
                => /\ Alternates(TurnTail(ch'[t].messages))
                   /\ Len(TurnTail(ch'[t].messages)) = steps'[t]
          /\ pc'[t] = "agent" => steps'[t] % 2 = 0
          /\ pc'[t] = "tool"
                => steps'[t] % 2 = 1 /\ Last(ch'[t].messages).kind = "tool_call"
          /\ pc'[t] = "save" => EndedTurn(TurnTail(ch'[t].messages))
          /\ (pc[t] = "save" /\ pc'[t] = "respond")
                => EndedTurn(TurnTail(Stored(sid[t])'.messages))
      ]_vars

C30_Witness ==
    \E t \in Requests :
        /\ pc[t] = "save"
        /\ TurnTail(ch[t].messages)
              = <<Msg("ai", "tool_call", 1), Msg("tool", "text", 0), Msg("ai", "final", 0)>>

\* The threshold a resolving call works with according to C25: the one
\* given, else 80 for teams and 90 for tournaments.
ClaimedThreshold(in) ==
    IF in.threshold.given THEN in.threshold.value
    ELSE IF in.fn = "get_teams_by_tournament" THEN 90
    ELSE 80

\* Entry i has the highest score and is the earliest entry that has it.
EarliestBest(scores, i) ==
    /\ \A j \in 1..Len(scores) : scores[j] <= scores[i]
    /\ \A j \in 1..(i - 1) : scores[j] < scores[i]

Canonical(q) == get_best_match(fnIn.names, Scores(q, fnIn.names), DefaultThreshold)

\* The same call with the two team queries exchanged.
Exchanged ==
    match_odds_data(fnIn.names, fnIn.team_two, fnIn.team_one, fnIn.feed, fnIn.odds)

\* C23, as stated: the odds lookup does not depend on the order of its two
\* team queries: exchanged, they select the same fixture and give the same
\* odds dict (same match label, same home and away odds), or the same
\* error, or raise alike.
C23_OddsForMatchOrderIndependent ==
    fnOut.kind \in {"error", "odds", "raised"}
       => /\ Exchanged = fnOut
          /\ FoundFixture(fnIn.names, fnIn.feed.fixtures,
                          Canonical(fnIn.team_one), Canonical(fnIn.team_two))
               = FoundFixture(fnIn.names, fnIn.feed.fixtures,
                              Canonical(fnIn.team_two), Canonical(fnIn.team_one))

\* C23, amended: exchanged, the two team queries select the same fixture and
\* give the same odds dict or raise the same exception; an error is the same
\* check failing with the same message, in which the two names are quoted
\* in the order of the call, so exchanged as well.
C23_OrderIndependentUpToQuotedNames ==
    fnOut.kind \in {"error", "odds", "raised"}
       => /\ Exchanged.kind = fnOut.kind
          /\ Exchanged.error = fnOut.error
          /\ Exchanged.about = <<fnOut.about[2], fnOut.about[1]>>
          /\ fnOut.kind \in {"odds", "raised"} => Exchanged = fnOut
          /\ fnOut.kind = "error" => Exchanged = [fnOut EXCEPT !.about = Exchanged.about]
          /\ FoundFixture(fnIn.names, fnIn.feed.fixtures,
                          Canonical(fnIn.team_one), Canonical(fnIn.team_two))
               = FoundFixture(fnIn.names, fnIn.feed.fixtures,
                              Canonical(fnIn.team_two), Canonical(fnIn.team_one))

C23_Witness ==
    /\ fnOut.kind = "odds"
    /\ fnOut.match = <<"Napoli", "Pisa">>
    /\ fnOut.home_win = 2 /\ fnOut.away_win = 3
    /\ fnIn.team_one = "Pisa" /\ fnIn.team_two = "napoli fc"
    /\ Len(fnIn.feed.fixtures) = 2
    /\ fnIn.feed.fixtures[1].home = "Pisa" /\ fnIn.feed.fixtures[1].away = ""

\* Some fixture of the feed has the two canonical names as its teams, in
\* either order.
SomeFixtureOfBoth ==
    \E i \in 1..Len(fnIn.feed.fixtures) :
        LET f == fnIn.feed.fixtures[i]
        IN /\ f.home # "" /\ f.away # ""
           /\ {Canonical(f.home), Canonical(f.away)}
                 = {Canonical(fnIn.team_one), Canonical(fnIn.team_two)}

\* C24: the odds lookup reports the first check that fails: a team that
\* does not resolve, then both teams resolving to the same name, then no
\* fixture of the two teams, then odds whose status is not Active; it gives
\* the odds dict only when all four checks pass, and an error otherwise.
C24_FirstFailingCheckReported ==
    fnOut.kind \in {"error", "odds", "raised"}
       => /\ fnOut.kind # "raised"
          /\ fnOut.error = "Could not find one or both teams"
                <=> (Canonical(fnIn.team_one) = NotFound \/ Canonical(fnIn.team_two) = NotFound)
          /\ fnOut.error = "Cannot get odds for a team against itself"
                <=> /\ Canonical(fnIn.team_one) # NotFound
                    /\ Canonical(fnIn.team_one) = Canonical(fnIn.team_two)
          /\ (/\ Canonical(fnIn.team_one) # NotFound
               /\ Canonical(fnIn.team_two) # NotFound
               /\ Canonical(fnIn.team_one) # Canonical(fnIn.team_two))
              => /\ (fnIn.feed.fixtures # <<>> /\ ~SomeFixtureOfBoth)
                      => fnOut.error = "No upcoming match found"
                 /\ fnOut.error = "No upcoming match found" => ~SomeFixtureOfBoth
                 /\ fnOut.error = "Odds are currently inactive or unavailable"
                      => SomeFixtureOfBoth /\ fnIn.odds.status # "Active"
                 /\ (SomeFixtureOfBoth /\ fnIn.odds.status # "Active")
                      => fnOut.kind = "error"
          /\ fnOut.kind = "odds"
                => /\ Canonical(fnIn.team_one) # NotFound
                   /\ Canonical(fnIn.team_two) # NotFound
                   /\ Canonical(fnIn.team_one) # Canonical(fnIn.team_two)
                   /\ SomeFixtureOfBoth
                   /\ fnIn.odds.status = "Active"

\* C26: on every day of the week "this weekend" is a Saturday and the
\* Sunday after it, the next ones from today on, and on a Saturday or a
\* Sunday the Saturday is later than today.
C26_WeekendIsNextSaturdaySunday ==
    (fnOut.kind = "range" /\ Contains(fnIn.query, "weekend"))
       => /\ WeekdayOf(fnOut.range.start, fnIn.today) = 5
          /\ WeekdayOf(fnOut.range.end, fnIn.today) = 6
          /\ fnOut.range.end = fnOut.range.start + 1
          /\ fnOut.range.start >= fnIn.today.day
          /\ fnOut.range.start <= fnIn.today.day + 7
          /\ fnIn.today.weekday \in {5, 6} => fnOut.range.start > fnIn.today.day

\* C27: in a month of L days "this month" is the range from day 1 to day L
\* and "end of the month" the range from day L-4 to day L, the latter when
\* a query fits both; and the fixtures listed for such a query are those
\* dated within its range, so that a fixture of the 10th is listed for
\* "this month" and not for "end of the month".
C27_MonthRangesAndFixturesOn ==
    /\ (fnOut.kind = "range" /\ ~Contains(fnIn.query, "weekend"))
          => /\ (Contains(fnIn.query, "end of") /\ Contains(fnIn.query, "month"))
                  => fnOut.range = [start |-> fnIn.today.len - 4, end |-> fnIn.today.len]
             /\ (~Contains(fnIn.query, "end of") /\ Contains(fnIn.query, "month"))
                  => fnOut.range = [start |-> 1, end |-> fnIn.today.len]
    /\ (/\ fnOut.kind \in {"text", "fixtures"}
        /\ fnIn.feed.kind = "list"
        /\ fnIn.query \in {"this month", "end of the month"})
          => LET range == parse_date_range(fnIn.query, fnIn.today, fnIn.parsed)
             IN \A d \in FixtureDays :
                   (\E i \in 1..Len(fnOut.days) : fnOut.days[i] = d)
                      <=> /\ \E i \in 1..Len(fnIn.feed.days) : fnIn.feed.days[i] = d
                          /\ range.start <= d /\ d <= range.end

\* The range of the call, and the fixtures of the feed that lie in it.
RangeOfCall == parse_date_range(fnIn.query, fnIn.today, fnIn.parsed)

InRange == {i \in 1..Len(fnIn.feed.fixtures) :
               /\ RangeOfCall.start <= fnIn.feed.fixtures[i].day
               /\ fnIn.feed.fixtures[i].day <= RangeOfCall.end}

\* Those of them with active odds and both sides priced.
Priced == {i \in InRange : fnIn.feed.fixtures[i].ids
                              /\ fnIn.feed.fixtures[i].odds.kind = "priced"}

HomeOdds(i) == fnIn.feed.fixtures[i].odds.home

AwayOdds(i) == fnIn.feed.fixtures[i].odds.away

\* C28: a successful analysis gives as safest the least and as riskiest the
\* greatest of the home and away odds of the fixtures in range with active
\* odds and both sides priced, and as most competitive one of them with the
\* least difference between its two odds; a fixture a result names is one of
\* them and has the odds reported, the other fixtures having no part in it.
\* With one such fixture the safest and the riskiest odds are equal exactly
\* when its two odds are.
C28_AnalysisExtrema ==
    fnOut.kind = "analysis"
       => /\ Priced # {}
          /\ \A i \in Priced :
                /\ fnOut.safest_bet.odds <= HomeOdds(i) /\ fnOut.safest_bet.odds <= AwayOdds(i)
                /\ fnOut.riskiest_bet.odds >= HomeOdds(i) /\ fnOut.riskiest_bet.odds >= AwayOdds(i)
                /\ fnOut.most_competitive_match.diff <= Abs(HomeOdds(i) - AwayOdds(i))
          /\ \E i \in Priced : fnOut.safest_bet.odds \in {HomeOdds(i), AwayOdds(i)}
          /\ \E i \in Priced : fnOut.riskiest_bet.odds \in {HomeOdds(i), AwayOdds(i)}
          /\ fnOut.most_competitive_match.fixture \in Priced
          /\ fnOut.most_competitive_match.diff
                = Abs(HomeOdds(fnOut.most_competitive_match.fixture)
                        - AwayOdds(fnOut.most_competitive_match.fixture))
          /\ \A bet \in {fnOut.safest_bet, fnOut.riskiest_bet} :
                bet.fixture # 0
                   => /\ bet.fixture \in Priced
                      /\ bet.odds = IF bet.team = "home" THEN HomeOdds(bet.fixture)
                                    ELSE AwayOdds(bet.fixture)
          /\ \A i \in Priced :
                Priced = {i} => (fnOut.safest_bet.odds = fnOut.riskiest_bet.odds
                                   <=> HomeOdds(i) = AwayOdds(i))

C28_Witness ==
    /\ fnOut.kind = "analysis"
    /\ Len(fnIn.feed.fixtures) = 2
    /\ fnIn.feed.fixtures[1].odds.kind = "inactive"
    /\ fnIn.feed.fixtures[1].ids /\ 1 \in InRange
    /\ Priced = {2}
    /\ fnOut.safest_bet = [odds |-> 1, fixture |-> 2, team |-> "home"]
    /\ fnOut.riskiest_bet = [odds |-> 2, fixture |-> 2, team |-> "away"]

\* C29: the analysis fails with the date error when the query is not
\* understood, with the no-fixtures error when no fixture lies in the range,
\* with the no-odds error when fixtures lie in the range and none has usable
\* odds; in every other case it succeeds and each of its three results names
\* a fixture, none being left at its initial value.
C29_AnalysisErrorsAndPopulatedResults ==
    fnOut.kind \in {"error", "analysis", "raised"}
       => IF fnOut.kind = "raised"
             THEN FALSE
          ELSE IF RangeOfCall = NoRange
             THEN fnOut.error = "Couldn't understand the date or range"
          ELSE IF InRange = {}
             THEN fnOut.error \in {"Could not retrieve fixtures from the API",
                                   "No fixtures data was found to analyze",
                                   "No matches found for the period"}
          ELSE IF Priced = {}
             THEN fnOut.error = "Found matches, but couldn't analyze their odds"
          ELSE /\ fnOut.kind = "analysis"
               /\ fnOut.safest_bet.fixture # 0
               /\ fnOut.riskiest_bet.fixture # 0
               /\ fnOut.most_competitive_match.fixture # 0
               /\ fnOut.safest_bet.odds # Infinity
               /\ fnOut.riskiest_bet.odds # 0
               /\ fnOut.most_competitive_match.diff # Infinity

IsPrefix(a, b) == Len(a) <= Len(b) /\ SubSeq(b, 1, Len(a)) = a

\* The state a running turn works on: the dict get_session returned until
\* invoke has read it, the graph's state from then on.
Working(t) == IF pc[t] \in {"append", "invoke", "respond"} THEN objs[cur[t]] ELSE ch[t]

\* C31: message history and bets are append-only: in every step the history
\* and the bets stored for a session, and those a running turn works on, are
\* extended at their end or left as they are; nothing is removed, reordered
\* or modified.
C31_HistoryAndBetsAppendOnly ==
    [][/\ \A s \in DOMAIN sessions :
             /\ IsPrefix(Stored(s).messages, Stored(s)'.messages)
             /\ IsPrefix(Stored(s).bets, Stored(s)'.bets)
       /\ \A t \in Requests :
             (Holds(t) /\ Holds(t)')
                => /\ IsPrefix(Working(t).messages, Working(t)'.messages)
                   /\ IsPrefix(Working(t).bets, Working(t)'.bets)
      ]_vars

\* The patch P and the match context M of the merge, None taken as empty.
MergedPatch == NewContext(fnIn.out)

MergedInto == IF fnIn.context.isNone THEN EmptyDict ELSE fnIn.context.d

\* C32: the merge is shallow: after merging patch P into match context M
\* (None taken as empty), every key of P has P's whole value, nothing of the
\* old value being kept, and every other key of M has M's value.  So after
\* the odds dict of get_odds_for_match is merged, the match label and the
\* six markets are those of the new match.
C32_ShallowMerge ==
    fnOut.kind = "merged"
       => /\ DOMAIN fnOut.d = DOMAIN MergedInto \cup DOMAIN MergedPatch
          /\ \A k \in DOMAIN MergedPatch : fnOut.d[k] = MergedPatch[k]
          /\ \A k \in DOMAIN MergedInto \ DOMAIN MergedPatch : fnOut.d[k] = MergedInto[k]
          /\ fnIn.out.parsed \in Snapshots
                => \A k \in OddsKeys : fnOut.d[k] = fnIn.out.parsed[k]

C32_Witness ==
    /\ fnOut.kind = "merged"
    /\ DOMAIN fnIn.context.d = OddsKeys \cup {"balance_change"}
    /\ fnIn.context.d.match = 1
    /\ fnIn.context.d.match_result = [home_win |-> 2, draw |-> 3]
    /\ fnOut.d.match = 2
    /\ fnOut.d.match_result = [home_win |-> 0, draw |-> 0]
    /\ fnOut.d.half_time_result = [home_win |-> 0, draw |-> 0]
    /\ fnOut.d.balance_change = -1

\* Request t calls get_session for session id s in this step.
GetsSession(t, s) == pc[t] = "idle" /\ pc'[t] # "idle" /\ cacheReady /\ sid'[t] = s

\* The balance a lookup seeds a session with.
Seed(lookup) == IF lookup.raises \/ lookup.none \/ ~lookup.has THEN 0 ELSE lookup.money

\* C33: the first get for a session id creates the session, with empty
\* history, no match context, empty bets and the balance of one lookup; the
\* lookup is made at most once per session id, however the first requests
\* for the id overlap, and never for a session that exists.
C33_SessionCreatedOnceWithOneLookup ==
    [][\A s \in Sessions :
          /\ Len(lookups'[s]) <= 1
          /\ lookups'[s] # lookups[s] => s \notin DOMAIN sessions
          /\ \A t \in Requests :
                GetsSession(t, s)
                   => /\ s \in DOMAIN sessions'
                      /\ s \in DOMAIN sessions => /\ lookups'[s] = lookups[s]
                                                  /\ Stored(s)' = Stored(s)
                      /\ s \notin DOMAIN sessions
                            => /\ Len(lookups'[s]) = Len(lookups[s]) + 1
                               /\ Stored(s)' =
                                     [messages |-> <<>>,
                                      match_context |-> [isNone |-> TRUE, d |-> EmptyDict],
                                      simulated_balance |-> Seed(Last(lookups'[s])),
                                      bets |-> <<>>]
      ]_vars

\* C34: no turn, whatever the decision service asks for, runs place_real_bet
\* or calls the upstream place-bet endpoint: the name is not in the tool
\* list, a call of it is answered with the invalid-tool text and changes
\* neither balance nor bets.
C34_NoRealBetFromATurn ==
    [][/\ realBets' = [ran |-> 0, placed |-> 0]
       /\ \A t \in Requests :
             (pc[t] = "tool" /\ pending'[t].name \in {"place_real_bet", "get_user_balance"})
                => /\ toolOut'[t] = TextOutput("invalid_tool", 0)
                   /\ ~toolOut'[t].raises
                   /\ pc'[t] = "agent"
                      => /\ ch'[t].simulated_balance = ch[t].simulated_balance
                         /\ ch'[t].bets = ch[t].bets
                         /\ ch'[t].match_context = ch[t].match_context
      ]_vars

C34_Witness ==
    \E t \in Requests :
        /\ pc[t] = "agent"
        /\ pending[t] = [name |-> "place_real_bet", amount |-> 1, args |-> "ok"]
        /\ toolOut[t].raw.kind = "invalid_tool"
        /\ ch[t].simulated_balance = 2
        /\ Last(ch[t].messages) = Msg("tool", "invalid_tool", 0)
        /\ realBets = [ran |-> 0, placed |-> 0]

\* The balance session s was seeded with: that of the lookup which returned
\* when the session was created, the last one made for the id.
SeedOf(s) == Seed(Last(lookups[s]))

\* Balance and stakes of a state add up to a seed.
Conserved(state, seed) == state.simulated_balance + SumStakes(state.bets) = seed

\* C35: with turns executed one at a time, the balance of a session plus the
\* stakes of its bets is the balance the session was seeded with, in the
\* stored state and in the state of the running turn; a step of a turn
\* that lowers the balance appends exactly one ledger entry, with the
\* amount debited, and a step that appends a ledger entry lowers the
\* balance by its amount.
C35_StakeConserved ==
    [][/\ \A s \in DOMAIN sessions' : Conserved(Stored(s)', SeedOf(s)')
       /\ \A t \in Requests :
             /\ pc'[t] \in {"agent", "tool", "save"} => Conserved(ch'[t], SeedOf(sid[t])')
             /\ (InGraph(t) /\ pc'[t] \in {"agent", "tool", "save"}
                   /\ (ch'[t].simulated_balance # ch[t].simulated_balance
                          \/ ch'[t].bets # ch[t].bets))
                => /\ Len(ch'[t].bets) = Len(ch[t].bets) + 1
                   /\ IsPrefix(ch[t].bets, ch'[t].bets)
                   /\ Last(ch'[t].bets).amount_bet > 0
                   /\ ch'[t].simulated_balance
                         = ch[t].simulated_balance - Last(ch'[t].bets).amount_bet
      ]_vars

C35_Witness ==
    /\ pc["r1"] = "done" /\ pc["r2"] = "done"
    /\ sid["r1"] = "s1" /\ sid["r2"] = "s1"
    /\ SeedOf("s1") = 2
    /\ Stored("s1").simulated_balance = 0
    /\ Len(Stored("s1").bets) = 2
    /\ Len(Stored("s1").messages) = 8

\* The delta and the ledger entry that the tool output of request t carries
\* under "context", if any.
ReturnedUpdates(t) ==
    IF /\ toolOut[t].json
       /\ "context" \in DOMAIN toolOut[t].parsed
    THEN Restrict(toolOut[t].parsed.context, {"balance_change", "new_bet"})
    ELSE EmptyDict

\* The copies of a delta or an entry that an earlier merge left in the match
\* context request t works on.
Leftovers(t) ==
    IF ChannelContext(t).isNone THEN EmptyDict
    ELSE Restrict(ChannelContext(t).d, {"balance_change", "new_bet"})

\* C36: a balance delta and a ledger entry are applied exactly once, in the
\* tool step that returned them: that step adds the delta to the balance and
\* appends the entry; a tool step whose own patch carries neither leaves
\* balance and ledger alone, whatever copies the match context holds; no
\* other step of a turn changes them, and a later turn starts from the stored
\* balance and ledger.
C36_UpdatesAppliedOnce ==
    [][\A t \in Requests :
          /\ (ToolStep(t) /\ Truthy(ReturnedUpdates(t)'))
             => /\ DOMAIN ReturnedUpdates(t)' = {"balance_change", "new_bet"}
                /\ ch'[t].simulated_balance =
                      ch[t].simulated_balance + ReturnedUpdates(t)'.balance_change
                /\ ch'[t].bets = Append(ch[t].bets, ReturnedUpdates(t)'.new_bet)
                /\ Leftovers(t)' = ReturnedUpdates(t)'
          /\ (ToolStep(t) /\ ~Truthy(ReturnedUpdates(t)'))
             => /\ ch'[t].simulated_balance = ch[t].simulated_balance
                /\ ch'[t].bets = ch[t].bets
                /\ Leftovers(t)' = Leftovers(t)
          /\ (InGraph(t) /\ pc'[t] \in {"agent", "tool", "save"} /\ ~ToolStep(t))
             => /\ ch'[t].simulated_balance = ch[t].simulated_balance
                /\ ch'[t].bets = ch[t].bets
          /\ (pc[t] = "invoke" /\ pc'[t] = "agent")
             => /\ ch'[t].simulated_balance = objs[cur[t]].simulated_balance
                /\ ch'[t].bets = objs[cur[t]].bets
      ]_vars

\* A later turn on a session whose stored context holds the copies of a bet:
\* its odds lookup merged a patch without them.
C36_Witness ==
    /\ pc["r1"] = "done" /\ pc["r2"] = "agent"
    /\ sid["r1"] = "s1" /\ sid["r2"] = "s1"
    /\ Len(Stored("s1").bets) = 1
    /\ Stored("s1").simulated_balance = 1
    /\ pending["r2"].name = "get_odds_for_match"
    /\ toolOut["r2"].json
    /\ DOMAIN Leftovers("r2") = {"balance_change", "new_bet"}
    /\ Leftovers("r2").balance_change = -1
    /\ ch["r2"].simulated_balance = 1
    /\ Len(ch["r2"].bets) = 1

\* Request t takes a step.
Steps(t) == pc'[t] # pc[t]

\* The session ids a step of request t is about.
SessionsOf(t) == {sid[t], sid'[t]}

\* C37: sessions are isolated: a step of a turn on one session id leaves
\* what is stored for every other session id as it is (messages, match
\* context, balance and bets), and leaves the state that a turn on another
\* session id works on as it is, concurrent turns interleaving freely.
C37_SessionsIsolated ==
    [][\A t \in Requests :
          Steps(t) =>
             /\ \A s \in DOMAIN sessions \ SessionsOf(t) :
                   /\ s \in DOMAIN sessions'
                   /\ Stored(s)' = Stored(s)
             /\ \A u \in Requests \ {t} :
                   (Holds(u) /\ sid[u] \notin SessionsOf(t))
                      => /\ pc'[u] = pc[u]
                         /\ Deref(Working(u), ctxs)' = Deref(Working(u), ctxs)
      ]_vars

\* Two turns on two session ids in flight together: one has placed a bet and
\* merged its patch, the other is at its tool step with the balance and the
\* empty ledger its session was created with.
C37_Witness ==
    /\ sid["r1"] = "s1" /\ sid["r2"] = "s2"
    /\ pc["r1"] = "agent" /\ pc["r2"] = "tool"
    /\ pending["r1"].name = "place_simulated_bet"
    /\ toolOut["r1"].json
    /\ ch["r1"].simulated_balance = 0
    /\ Len(ch["r1"].bets) = 1
    /\ "new_bet" \in DOMAIN ChannelContext("r1").d
    /\ ch["r2"].simulated_balance = 2
    /\ ch["r2"].bets = <<>>
    /\ ChannelContext("r2").isNone
    /\ Stored("s2").messages = <<Msg("human", "user", 0)>>

\* Request t has been accepted by the chat handler.
Accepted(t) == Holds(t) \/ pc[t] \in {"done", "failed"}

\* C38: cacheReady is false at start, becomes true only in the step after
\* the tournament population call and then the team population call have
\* returned, and never goes back to false; once a request has been accepted,
\* no later request is rejected as not ready.
C38_ReadyLatches ==
    /\ cacheReady = FALSE
    /\ [][/\ (~cacheReady /\ cacheReady')
               => /\ pop = "flag" /\ pop' = "ended"
                  /\ calls = 2
                  /\ lastCall.cache = "teams"
                  /\ UNCHANGED <<calls, lastCall, team_names, tournaments_map>>
          /\ cacheReady => cacheReady'
          /\ \A t \in Requests :
                /\ (pc[t] = "idle" /\ Accepted(t)') => cacheReady
                /\ (pc[t] = "idle" /\ pc'[t] = "rejected")
                      => \A u \in Requests : ~Accepted(u)
         ]_vars

\* A request rejected while the team population was still to return, and a
\* later one accepted and answered after the flag was set.
C38_Witness ==
    /\ cacheReady /\ pop = "ended" /\ calls = 2
    /\ pc["r1"] = "rejected" /\ response["r1"].status = 503
    /\ pc["r2"] = "done" /\ response["r2"].status = 200
    /\ lastCall.cache = "teams"

\* The lookup made when session s was created failed or gave no "money".
SeededWithoutMoney(s) ==
    /\ lookups[s] # <<>>
    /\ lookups[s][1].raises \/ lookups[s][1].none \/ ~lookups[s][1].has

\* The last tool step of request t ran the bet simulator on a positive amount.
PositiveBetRan(t) ==
    /\ pc[t] \in {"agent", "tool", "save", "respond", "done", "failed"}
    /\ toolOut[t] # NoOutput
    /\ pending[t].name = "place_simulated_bet"
    /\ pending[t].amount > 0

\* C39: when the balance lookup fails or returns no "money" value at the
\* creation of a session, the session is created all the same, with balance
\* 0; the lookup is not made again on later turns of the session; the
\* balance stays 0, stored and in every turn, and every bet with a positive
\* amount is rejected: its output carries no patch and the ledger stays
\* empty.
C39_NoMoneyMeansZeroForGood ==
    \A s \in Sessions :
        SeededWithoutMoney(s) =>
           /\ s \in DOMAIN sessions
           /\ Len(lookups[s]) = 1
           /\ Stored(s).simulated_balance = 0
           /\ Stored(s).bets = <<>>
           /\ \A t \in Requests :
                 (sid[t] = s /\ Holds(t)) =>
                    /\ Working(t).simulated_balance = 0
                    /\ Working(t).bets = <<>>
           /\ \A t \in Requests :
                 (sid[t] = s /\ PositiveBetRan(t)) =>
                    /\ ~toolOut[t].json
                    /\ toolOut[t].raw.kind \in {"InsufficientBalance", "odds_error", "exception"}
                    /\ toolOut[t].raw.kind = "InsufficientBalance" => toolOut[t].raw.val = 0

====
